---- MODULE Spec2Model ----
(***************************************************************************)
(* A model of the cloud-gate AWS broker (broker/aws/impl.go).              *)
(*                                                                         *)
(* Part 1: the unsealing protocol (newBroker, loadCredentialsFile,         *)
(* processNewUnsealingSecret, loadCredentialsFrombytes, finishUnsealing).  *)
(* Every call runs on a caller thread and is cut into steps at each access *)
(* of a Broker field, so that calls can overlap as the Go code allows.     *)
(***************************************************************************)
EXTENDS Integers, Sequences, FiniteSets, TLC

\* ------------------------------------------------------------------ bounds
NumThreads == 2      \* caller threads
MaxCalls == 4        \* broker operations started in one run, one at a time
MaxOverlapCalls == 3 \* broker operations started in one run, overlapping
MaxFileChanges == 1  \* times the credentials file is replaced on disk

Threads == 1..NumThreads

\* ------------------------------------------------------- program constants
defaultRegion == "us-west-2"
masterAWSProfileName ==
  <<"b", "r", "o", "k", "e", "r", "-", "m", "a", "s", "t", "e", "r">>
MinKeyLen == 3              \* len(accessKeyID) < 3 || len(secretAccessKey) < 3
isUnsealedChannelCap == 1   \* make(chan error, 1)

\* ---------------------------------------------------------------- inputs
\* Names and key material are sequences of characters, so that len() is
\* Len() and a profile name can be compared with an account name.
GoodKeyA == <<"a", "a", "a">>
GoodKeyB == <<"b", "b", "b", "b">>
ShortKey == <<"a", "a">>
NoKey == << >>

Section(name, id, secret, region) ==
  [name |-> name, accessKeyID |-> id, secretAccessKey |-> secret, region |-> region]

\* go-ini always reports the DEFAULT section; here it carries no keys.
DefaultSection == Section(<<"D", "E", "F", "A", "U", "L", "T">>, NoKey, NoKey, "")
MasterSection == Section(masterAWSProfileName, GoodKeyA, GoodKeyB, "")
\* The profile of the account named "ot".
OtherSection == Section(<<"o", "t">>, GoodKeyB, GoodKeyB, "us-east-1")
ShortSection == Section(masterAWSProfileName, ShortKey, GoodKeyB, "")

\* The bytes of a credentials text: whether ini.Load accepts them, and the
\* sections it then reports.
Text(iniOK, sections) == [iniOK |-> iniOK, sections |-> sections]
TextBoth == Text(TRUE, <<DefaultSection, MasterSection, OtherSection>>)
TextOther == Text(TRUE, <<DefaultSection, OtherSection>>)
TextShort == Text(TRUE, <<DefaultSection, ShortSection>>)
TextGarbage == Text(FALSE, << >>)
TextEmpty == Text(TRUE, <<DefaultSection>>)

\* The bytes of a file.  kind "ini": plaintext; kind "pgp": the bytes start
\* with the armor header, armorOK tells whether armor.Decode accepts them,
\* pass is the symmetric passphrase, intact whether the body reads to its
\* end, text the plaintext; kind "none": no bytes (a nil slice).
PlainFile(text) ==
  [kind |-> "ini", armorOK |-> FALSE, pass |-> "", intact |-> TRUE, text |-> text]
PgpFile(armorOK, pass, intact, text) ==
  [kind |-> "pgp", armorOK |-> armorOK, pass |-> pass, intact |-> intact, text |-> text]
\* ini.Load of no bytes succeeds and reports the DEFAULT section alone.
NoBytes ==
  [kind |-> "none", armorOK |-> FALSE, pass |-> "", intact |-> TRUE, text |-> TextEmpty]

Files ==
  { PlainFile(TextBoth), PlainFile(TextOther), PlainFile(TextShort),
    PgpFile(TRUE, "password", TRUE, TextBoth),
    PgpFile(TRUE, "password", TRUE, TextOther),
    PgpFile(TRUE, "password", TRUE, TextShort),
    PgpFile(TRUE, "password", TRUE, TextGarbage),
    PgpFile(TRUE, "password", FALSE, TextBoth),
    PgpFile(FALSE, "password", TRUE, TextBoth) }

\* What is on disk at the configured path: a file, or nothing readable.
DiskStates == Files \cup {NoBytes}

Secrets == {"password", "wrong"}
Filenames == {"", "/credentials-filename"}

\* Outcomes of the instance-metadata lookup (an external service).
MetaDataOutcomes ==
  { [err |-> TRUE, region |-> defaultRegion],
    [err |-> FALSE, region |-> ""],
    [err |-> FALSE, region |-> "us-gov-west-1"] }

\* ---------------------------------------------------------------- strings
\* A string is a sequence of characters.  Alphabet lists the characters in
\* use in byte order, so that sort.Strings and strings.ToLower can be
\* computed.
Alphabet == <<"(", "-", ".", "A", "R", "a", "c", "d", "o", "r", "t">>

Code(c) == CHOOSE i \in 1..Len(Alphabet) : Alphabet[i] = c

\* strings.ToLower
LowerChar(c) == IF c = "A" THEN "a" ELSE IF c = "R" THEN "r" ELSE c
ToLower(str) == [i \in 1..Len(str) |-> LowerChar(str[i])]

\* str1 < str2 in the order of sort.Strings (bytewise).
RECURSIVE StrLess(_, _)
StrLess(a, b) ==
  IF Len(b) = 0 THEN FALSE
  ELSE IF Len(a) = 0 THEN TRUE
  ELSE IF a[1] = b[1] THEN StrLess(Tail(a), Tail(b))
  ELSE Code(a[1]) < Code(b[1])

\* sort.Strings: insertion into a sorted sequence, kept stable.
RECURSIVE InsertSorted(_, _)
InsertSorted(x, sorted) ==
  IF Len(sorted) = 0 THEN <<x>>
  ELSE IF StrLess(x, sorted[1]) THEN <<x>> \o sorted
  ELSE <<sorted[1]>> \o InsertSorted(x, Tail(sorted))

RECURSIVE SortStrings(_)
SortStrings(strs) ==
  IF Len(strs) = 0 THEN << >>
  ELSE InsertSorted(strs[1], SortStrings(Tail(strs)))

Range(seq) == {seq[i] : i \in 1..Len(seq)}

\* regexp.Compile of a pattern built from str: the only character here that
\* makes the pattern invalid is an unbalanced parenthesis.
RegexCompiles(str) == "(" \notin Range(str)

\* One pattern character against one input character under (?i).
PatternCharMatches(p, c) == p = "." \/ LowerChar(p) = LowerChar(c)

\* re.FindStringSubmatch for "(?i)^<name>-(.*)$": << >> when the group does
\* not match, <<suffix>> (matches[1]) when it does.
GroupMatch(name, group) ==
  IF /\ Len(group) >= Len(name) + 1
     /\ \A i \in 1..Len(name) : PatternCharMatches(name[i], group[i])
     /\ group[Len(name) + 1] = "-"
    THEN <<SubSeq(group, Len(name) + 2, Len(group))>>
    ELSE << >>

\* ---------------------------------------------------------- input values
AcctA == <<"a", "c">>
AcctACased == <<"A", "c">>
AcctO == <<"o", "t">>
RoleRo == <<"R", "o">>
RoleAd == <<"A", "d">>
RoleRoLower == <<"r", "o">>
NoStr == << >>

Account(name, id, display, group, extra) ==
  [Name |-> name, AccountID |-> id, DisplayName |-> display,
   GroupName |-> group, ExtraUserRoles |-> extra]

Configuration(prefix, accounts) ==
  [AWS |-> [GroupPrefix |-> prefix, Account |-> accounts]]

\* Two accounts, the second with a display name and an extra role.
ConfigTwo ==
  Configuration(NoStr,
    << Account(AcctA, "1", NoStr, NoStr, << >>),
       Account(AcctO, "2", <<"O">>, NoStr, <<RoleAd>>) >>)
\* One account whose name has an upper-case letter, with an extra role and
\* a group prefix.
ConfigCased ==
  Configuration(<<"a">>,
    << Account(AcctACased, "1", NoStr, NoStr, <<RoleRo>>) >>)
Configs == {ConfigTwo, ConfigCased}

Users == {"u1", "u2"}

\* What the identity provider may hold for a user.
GroupLists ==
  { << >>,
    << AcctA \o <<"-">> \o RoleRoLower, AcctACased \o <<"-">> \o RoleAd,
       AcctO \o <<"-">> \o RoleRo >>,
    << AcctO \o <<"-">> \o RoleAd >> }

\* What IAM may list in an account.
RoleLists == { <<RoleRo, RoleAd>>, <<RoleAd>>, << >> }

\* The accounts the cloud knows.
CloudNames == {AcctA, AcctACased, AcctO}
CloudAccount(assume, list, roles) ==
  [assume |-> assume, list |-> list, roles |-> roles]
Healthy == CloudAccount(TRUE, "ok", <<RoleRo, RoleAd>>)
CloudStates ==
  { [a \in CloudNames |-> Healthy],
    [a \in CloudNames |->
       IF a = AcctO THEN CloudAccount(FALSE, "ok", <<RoleAd>>) ELSE Healthy],
    [a \in CloudNames |->
       IF a = AcctO THEN CloudAccount(TRUE, "error", << >>) ELSE Healthy],
    [a \in CloudNames |->
       IF a = AcctO THEN Healthy ELSE CloudAccount(TRUE, "timeout", << >>)],
    [a \in CloudNames |-> CloudAccount(FALSE, "ok", << >>)] }

IdpStates ==
  { [ok |-> ok, groups |-> g] :
      ok \in BOOLEAN,
      g \in { [u \in Users |-> IF u = "u1" THEN l ELSE << >>] : l \in GroupLists } }

\* ----------------------------------------------------------------- state
VARIABLES
  credentialsFilename,  \* Broker.credentialsFilename
  rawCredentialsFile,   \* Broker.rawCredentialsFile
  profileCredentials,   \* Broker.profileCredentials: profile name -> entry
  masterStsClient,      \* Broker.masterStsClient: << >> is nil, <<c>> is set
  masterStsRegion,      \* Broker.masterStsRegion
  isUnsealedChannel,    \* Broker.isUnsealedChannel: the buffered values
  disk,                 \* the file system at credentialsFilename
  crashed,              \* the Go runtime stopped the process (fatal error)
  frame,                \* per thread: the running call, its locals and result
  hist,                 \* history: counts of what has happened so far
  config,               \* Broker.config: << >> is nil, <<c>> a configuration
  userInfo,             \* Broker.userInfo: the active (filtered) groups getter
  userAllowedCredentialsCache,  \* Broker.userAllowedCredentialsCache
  accountRoleCache,     \* Broker.accountRoleCache
  now,                  \* the wall clock, in seconds
  idp,                  \* the identity provider behind rawUserInfo
  cloud,                \* the cloud accounts: STS and IAM as they answer now
  last,                 \* the last authorization call and what it returned
  roleFrame,            \* per thread: the running getAWSRolesForAccount call
  listRolesSemaphore,   \* Broker.listRolesSemaphore: the permits held
  detached,             \* paginations still running whose caller timed out
  metrics,              \* the Prometheus counters of lines 48-77
  userFrame,            \* per thread: the running getUserAllowedAccounts call
  workers,              \* the per-account goroutines started at line 554
  permittedAccounts,    \* the slices of line 541, one per call that declared one
  listers,              \* the callers of the role listing, counted by place
  server                \* the HTTP Server: isReady, its brokers, its requests

brokerVars ==
  <<credentialsFilename, rawCredentialsFile, profileCredentials,
    masterStsClient, masterStsRegion, isUnsealedChannel>>
unsealVars == <<brokerVars, disk, crashed, frame>>
authzVars ==
  <<config, userInfo, userAllowedCredentialsCache, accountRoleCache, now,
    idp, cloud, last, roleFrame>>
extraVars == <<workers, permittedAccounts, listers, server>>
stepVars == <<listRolesSemaphore, detached, metrics, userFrame, extraVars>>
vars == <<unsealVars, hist, authzVars, stepVars>>

\* hist.sent[op]: values sent on the channel by calls of op;
\* hist.fuRuns[op]: times calls of op entered finishUnsealing;
\* hist.clientAssigns: assignments to masterStsClient; hist.calls: calls
\* started; hist.fileChanges: replacements of the file on disk;
\* hist.retWrong, hist.retEmpty: processNewUnsealingSecret calls that have
\* returned (false, err) and (false, nil); hist.ticks: advances of the
\* clock; hist.upstreamChanges: changes of the identity provider or cloud;
\* hist.enumerated[a]: the roles the last successful enumeration of
\* account a returned; hist.paginations: the paginations started;
\* hist.audit: the entries written to the audit log.
InitHist ==
  [sent |-> [pnus |-> 0, load |-> 0], fuRuns |-> [pnus |-> 0, load |-> 0],
   clientAssigns |-> 0, calls |-> 0, fileChanges |-> 0,
   retWrong |-> 0, retEmpty |-> 0, ticks |-> 0, upstreamChanges |-> 0,
   enumerated |-> [a \in {} |-> << >>], paginations |-> 0, audit |-> 0]

TotalSent == hist.sent.pnus + hist.sent.load
TotalFuRuns == hist.fuRuns.pnus + hist.fuRuns.load

\* What a call finds when it starts (for frame conditions): the Broker
\* fields a call can change and the values sent so far.
Snapshot ==
  [profileCredentials |-> profileCredentials,
   rawCredentialsFile |-> rawCredentialsFile,
   masterStsClient |-> masterStsClient,
   masterStsRegion |-> masterStsRegion,
   sent |-> TotalSent]

NoEntry == [AccessKeyID |-> NoKey, SecretAccessKey |-> NoKey, Region |-> ""]
EmptyProfiles == [n \in {} |-> NoEntry]
NoClient == [Credentials |-> [kind |-> "none", id |-> NoKey, secret |-> NoKey],
             Region |-> ""]
NilErr == "nil"
IdleFrame ==
  [pc |-> "idle", op |-> "none", secret |-> "", text |-> TextGarbage, idx |-> 0,
   client |-> NoClient, read |-> NoBytes, ready |-> FALSE, err |-> NilErr,
   pre |-> << >>]

\* frame[t]: pc, the place in the code; op, the operation called; secret, its
\* argument; read, what ioutil.ReadFile returned; text, idx, the bytes
\* loadCredentialsFrombytes parses and its loop index; client, the STS client
\* finishUnsealing builds; ready, err, the results; pre, the snapshot on entry.

\* newBroker, for the authorization fields: no configuration, empty caches.
NoCall ==
  [op |-> "none", username |-> "", ok |-> FALSE, err |-> NilErr, val |-> << >>]
\* roleFrame[t]: pc, the place in getAWSRolesForAccount; account, its
\* argument; ok, entry, what the map read of line 434 gave; value, what
\* getAWSRolesForAccountNonCached returned; roles, err, the results;
\* fetches, the calls of getAWSRolesForAccountNonCached made; pre, the
\* cache on entry; t0, t1, the clock on entry and at the cache write.
NoRoleEntry == [Roles |-> << >>, Expiration |-> 0, LastBadTime |-> << >>]
IdleRoleFrame ==
  [pc |-> "idle", account |-> << >>, ok |-> FALSE, entry |-> NoRoleEntry,
   value |-> [roles |-> << >>, err |-> NilErr], roles |-> << >>,
   err |-> NilErr, fetches |-> 0, pre |-> << >>, t0 |-> 0, t1 |-> 0,
   via |-> "none", page |-> "none", secs |-> 0, pageErr |-> NilErr]
\* via: the credentials the running enumeration lists with ("master" or
\* "profile"); page: its pagination goroutine ("running", or "sent" once it
\* has sent on the channel c); secs: the seconds the pagination takes;
\* pageErr: the error it ends with.

\* The counters, by label values: awsListRolesAttempt, awsListRolesSuccess
\* (accountName) and awsAssumeRoleAttempt, awsAssumeRoleSuccess
\* (accountName, roleName).
\* The code only ever raises them.  They are raised by the actions that take
\* the enumeration and the minting calls step by step; the actions that take
\* a whole authorization call in one step summarise its upstream calls and
\* leave the counters alone.
listRolesRoleName == <<"l", "r">>
MetricRoles == {RoleRo, RoleAd, RoleRoLower, listRolesRoleName}
NoMetrics ==
  [listAttempt |-> [a \in CloudNames |-> 0],
   listSuccess |-> [a \in CloudNames |-> 0],
   assumeAttempt |-> [l \in CloudNames \X MetricRoles |-> 0],
   assumeSuccess |-> [l \in CloudNames \X MetricRoles |-> 0]]

\* userFrame[t]: the running getUserAllowedAccounts or updateConfiguration
\* call of thread t.  pc, the place in the code; username, the argument;
\* ok, entry, what the map read of line 596 gave; seen, the configuration
\* read at line 580; getter, the b.userInfo read at line 583, and groups
\* what it returned; accounts, the configuration read at line 500; fresh,
\* what getUserAllowedAccountsNonCached returned; value, err, the results;
\* wrote, the entry the call stored; pending, the configuration that
\* updateConfiguration is installing.
NoFresh == [val |-> << >>, err |-> NilErr]
IdleUserFrame ==
  [pc |-> "idle", username |-> "", ok |-> FALSE, entry |-> << >>,
   seen |-> << >>, getter |-> << >>, groups |-> << >>, accounts |-> << >>,
   fresh |-> NoFresh, fetches |-> 0, value |-> << >>, err |-> NilErr,
   wrote |-> << >>, pending |-> << >>, call |-> 0, keys |-> {},
   allowed |-> [k \in {} |-> << >>]]
\* call: the number of the slice permittedAccounts of line 541 that the
\* call declared (0: none yet); allowed: its allowedRoles map; keys: the
\* keys of allowedRoles that the loop of line 544 has not visited yet.

\* listers: the callers of withAWSCredentialsProviderGetAWSRoleList when
\* they are counted instead of told apart.  waiting: in Acquire (line 349);
\* running: in the select, their goroutine paginating; sent: in the select,
\* their goroutine done and its result in the channel c; arrived, acquired:
\* the callers that have got to line 349 and past it so far; blocked: those
\* that found no permit free; paths: the ways callers have returned;
\* sends: the sends on the channels c so far; lateSend: whether a goroutine
\* has sent after its caller had returned.
NoListers ==
  [waiting |-> 0, running |-> 0, sent |-> 0, arrived |-> 0, acquired |-> 0,
   blocked |-> 0, paths |-> {}, sends |-> 0, lateSend |-> FALSE]

\* A request of the HTTP server that is not running.
IdleRequest ==
  [pc |-> "idle", method |-> "", secret |-> "", todo |-> {}, order |-> << >>,
   answers |-> [b \in {} |-> << >>], sumReady |-> 0, status |-> 0]
\* The broker on its own, without an HTTP server in front of it.
NoServer ==
  [isReady |-> FALSE, brokers |-> [b \in {} |-> << >>],
   req |-> [r \in {} |-> IdleRequest]]

NewAuthzState ==
  /\ roleFrame = [t \in Threads |-> IdleRoleFrame]
  /\ listRolesSemaphore = 0
  /\ detached = 0
  /\ metrics = NoMetrics
  /\ userFrame = [t \in Threads |-> IdleUserFrame]
  /\ workers = {}
  /\ permittedAccounts = [c \in {} |-> << >>]
  /\ listers = NoListers
  /\ server = NoServer
  /\ config = << >>
  /\ userInfo = << >>
  /\ userAllowedCredentialsCache = [u \in {} |-> << >>]
  /\ accountRoleCache = [a \in {} |-> << >>]
  /\ now = 0
  /\ last = NoCall

\* newBroker: empty maps, an empty channel of capacity 1, no master client.
Init ==
  /\ credentialsFilename \in Filenames
  /\ rawCredentialsFile = NoBytes
  /\ profileCredentials = EmptyProfiles
  /\ masterStsClient = << >>
  /\ masterStsRegion = ""
  /\ isUnsealedChannel = << >>
  /\ disk \in DiskStates
  /\ crashed = FALSE
  /\ frame = [t \in Threads |-> IdleFrame]
  /\ hist = InitHist
  /\ NewAuthzState
  /\ idp = [ok |-> TRUE, groups |-> [u \in Users |-> << >>]]
  /\ cloud = [a \in CloudNames |-> Healthy]

\* ------------------------------------------------------------ helpers
Upd(t, f) == frame' = [frame EXCEPT ![t] = f]
At(t, pc) == ~crashed /\ frame[t].pc = pc

\* What the running operation returns once loadCredentialsFrombytes has
\* returned lcbErr: processNewUnsealingSecret (lines 184-188) clamps every
\* error to (false, nil); loadCredentialsFile (line 203) passes the error on.
ReturnFromLoad_NotClamped(f, lcbErr) ==
  [f EXCEPT !.pc = "returned", !.ready = (f.op = "pnus" /\ lcbErr = NilErr),
            !.err = lcbErr]

ReturnFromLoad(f, lcbErr) ==
  IF f.op = "pnus"
    THEN [f EXCEPT !.pc = "returned", !.ready = (lcbErr = NilErr), !.err = NilErr]
    ELSE [f EXCEPT !.pc = "returned", !.ready = FALSE, !.err = lcbErr]

\* loadCredentialsFrombytes up to the loop: ini.Load and SectionStrings.
EnterLoadCredentialsFrombytes(f, text) ==
  IF ~text.iniOK
    THEN ReturnFromLoad(f, "ini parse error")
    ELSE [f EXCEPT !.pc = "lcb_section", !.text = text, !.idx = 1]

\* The loop's test on one section.
SectionAccepted(sec) ==
  ~(Len(sec.accessKeyID) < MinKeyLen \/ Len(sec.secretAccessKey) < MinKeyLen)

ProfileEntry(sec) ==
  [AccessKeyID |-> sec.accessKeyID,
   SecretAccessKey |-> sec.secretAccessKey,
   Region |-> IF sec.region = "" THEN defaultRegion ELSE sec.region]

MapPut(m, k, v) == [n \in DOMAIN m \cup {k} |-> IF n = k THEN v ELSE m[n]]

\* armor.Decode, openpgp.ReadMessage with the fail-fast prompt, ReadAll:
\* the error of the first step that fails, or nil.
DecryptError_AnyPassphrase(raw, secret) ==
  IF raw.kind # "pgp" \/ ~raw.armorOK THEN "armor decode error"
  ELSE IF ~raw.intact THEN "read body error"
  ELSE NilErr

DecryptError(raw, secret) ==
  IF raw.kind # "pgp" \/ ~raw.armorOK THEN "armor decode error"
  ELSE IF secret # raw.pass THEN "decryption failed"
  ELSE IF ~raw.intact THEN "read body error"
  ELSE NilErr

\* The fast-exit test of processNewUnsealingSecret.
AlreadyLoaded_NoMapTest == credentialsFilename = ""

AlreadyLoaded ==
  credentialsFilename = "" \/ Cardinality(DOMAIN profileCredentials) > 0

\* strings.HasPrefix(fileAsString, "-----BEGIN PGP MESSAGE-----")
HasPgpPrefix_Never(raw) == FALSE

HasPgpPrefix(raw) == raw.kind = "pgp"

\* The thread is about to store into the profile map.
Writing(t) ==
  /\ frame[t].pc = "lcb_section"
  /\ frame[t].idx <= Len(frame[t].text.sections)
  /\ SectionAccepted(frame[t].text.sections[frame[t].idx])

\* ------------------------------------------------- processNewUnsealingSecret
\* Lines 151-156: the call and its fast exit.
PNUS_Begin(t, secret) ==
  /\ At(t, "idle")
  /\ hist' = [hist EXCEPT !.calls = @ + 1]
  /\ LET f == [IdleFrame EXCEPT !.op = "pnus", !.secret = secret,
                                !.pre = <<Snapshot>>]
     IN IF AlreadyLoaded
          THEN Upd(t, [f EXCEPT !.pc = "returned", !.ready = TRUE])
          ELSE Upd(t, [f EXCEPT !.pc = "pnus_decode"])
  /\ UNCHANGED <<brokerVars, disk, crashed>>
  /\ UNCHANGED <<authzVars, stepVars>>

\* Lines 157-187: decode, decrypt, read, then parse the plaintext.
PNUS_Decode(t) ==
  /\ At(t, "pnus_decode")
  /\ LET f == frame[t]
         e == DecryptError(rawCredentialsFile, f.secret)
     IN IF e # NilErr
          THEN Upd(t, [f EXCEPT !.pc = "returned", !.ready = FALSE, !.err = e])
          ELSE Upd(t, EnterLoadCredentialsFrombytes(f, rawCredentialsFile.text))
  /\ UNCHANGED <<brokerVars, disk, crashed, hist>>
  /\ UNCHANGED <<authzVars, stepVars>>

\* ------------------------------------------------------ loadCredentialsFile
\* Lines 191-198: the empty path goes straight to finishUnsealing; otherwise
\* the file is read into rawCredentialsFile, a read error returning nil.
Load_Begin(t) ==
  /\ At(t, "idle")
  /\ LET f == [IdleFrame EXCEPT !.op = "load", !.pre = <<Snapshot>>]
     IN IF credentialsFilename = ""
          THEN /\ Upd(t, [f EXCEPT !.pc = "fu_provider"])
               /\ hist' = [hist EXCEPT !.calls = @ + 1, !.fuRuns.load = @ + 1]
               /\ UNCHANGED rawCredentialsFile
          ELSE /\ rawCredentialsFile' = disk
               /\ hist' = [hist EXCEPT !.calls = @ + 1]
               /\ IF disk.kind = "none"
                    THEN Upd(t, [f EXCEPT !.pc = "returned", !.read = disk])
                    ELSE Upd(t, [f EXCEPT !.pc = "load_check", !.read = disk])
  /\ UNCHANGED <<credentialsFilename, profileCredentials, masterStsClient,
                 masterStsRegion, isUnsealedChannel, disk, crashed>>
  /\ UNCHANGED <<authzVars, stepVars>>

\* Lines 199-203: an armored file defers unsealing, any other is parsed.
Load_Check(t) ==
  /\ At(t, "load_check")
  /\ LET f == frame[t]
     IN IF HasPgpPrefix(rawCredentialsFile)
          THEN Upd(t, [f EXCEPT !.pc = "returned"])
          ELSE Upd(t, EnterLoadCredentialsFrombytes(f, rawCredentialsFile.text))
  /\ UNCHANGED <<brokerVars, disk, crashed, hist>>
  /\ UNCHANGED <<authzVars, stepVars>>

\* ------------------------------------------------- loadCredentialsFrombytes
\* Lines 212-228: one iteration of the loop over the sections.
LCB_Section(t) ==
  /\ At(t, "lcb_section")
  /\ LET f == frame[t]
         sec == f.text.sections[f.idx]
     IN /\ f.idx <= Len(f.text.sections)
        /\ profileCredentials' =
             IF SectionAccepted(sec)
               THEN MapPut(profileCredentials, sec.name, ProfileEntry(sec))
               ELSE profileCredentials
        /\ Upd(t, [f EXCEPT !.idx = f.idx + 1])
  /\ UNCHANGED <<credentialsFilename, rawCredentialsFile, masterStsClient,
                 masterStsRegion, isUnsealedChannel, disk, crashed, hist>>
  /\ UNCHANGED <<authzVars, stepVars>>

\* Lines 229-233: "nothing loaded", or on to finishUnsealing.
LCB_Check(t) ==
  /\ At(t, "lcb_section")
  /\ LET f == frame[t]
     IN /\ f.idx > Len(f.text.sections)
        /\ IF Cardinality(DOMAIN profileCredentials) < 1
             THEN /\ Upd(t, ReturnFromLoad(f, "nothing loaded"))
                  /\ hist' = hist
             ELSE /\ Upd(t, [f EXCEPT !.pc = "fu_provider"])
                  /\ hist' = [hist EXCEPT !.fuRuns[f.op] = @ + 1]
  /\ UNCHANGED <<brokerVars, disk, crashed>>
  /\ UNCHANGED <<authzVars, stepVars>>

\* ----------------------------------------------------------- finishUnsealing
\* getCredentialsProviderFromProfile, lines 238-252, with the metadata
\* fallback of lines 254-272 (for the master profile alone) as outcome m.
getCredentialsProviderFromProfile(profileName, m) ==
  IF profileName \in DOMAIN profileCredentials
    THEN [err |-> FALSE,
          client |-> [Credentials |->
                        [kind |-> "static",
                         id |-> profileCredentials[profileName].AccessKeyID,
                         secret |-> profileCredentials[profileName].SecretAccessKey],
                      Region |-> profileCredentials[profileName].Region]]
    ELSE IF profileName = masterAWSProfileName
      THEN [err |-> m.err,
            client |-> [Credentials |-> [kind |-> "ec2role", id |-> NoKey, secret |-> NoKey],
                        Region |-> m.region]]
      ELSE [err |-> TRUE, client |-> NoClient]

MasterProvider(m) == getCredentialsProviderFromProfile(masterAWSProfileName, m)

\* Lines 131-144: without master credentials or region the function logs
\* and returns nil, and so does its caller.
FU_Provider(t) ==
  /\ At(t, "fu_provider")
  /\ \E m \in MetaDataOutcomes :
       LET f == frame[t]
           p == MasterProvider(m)
       IN IF p.err \/ p.client.Region = ""
            THEN Upd(t, ReturnFromLoad(f, NilErr))
            ELSE Upd(t, [f EXCEPT !.pc = "fu_client", !.client = p.client])
  /\ UNCHANGED <<brokerVars, disk, crashed, hist>>
  /\ UNCHANGED <<authzVars, stepVars>>

\* Line 145.
FU_Client(t) ==
  /\ At(t, "fu_client")
  /\ masterStsClient' = <<frame[t].client>>
  /\ hist' = [hist EXCEPT !.clientAssigns = @ + 1]
  /\ Upd(t, [frame[t] EXCEPT !.pc = "fu_region"])
  /\ UNCHANGED <<credentialsFilename, rawCredentialsFile, profileCredentials,
                 masterStsRegion, isUnsealedChannel, disk, crashed>>
  /\ UNCHANGED <<authzVars, stepVars>>

\* Line 146.
FU_Region(t) ==
  /\ At(t, "fu_region")
  /\ masterStsRegion' = frame[t].client.Region
  /\ Upd(t, [frame[t] EXCEPT !.pc = "fu_send"])
  /\ UNCHANGED <<credentialsFilename, rawCredentialsFile, profileCredentials,
                 masterStsClient, isUnsealedChannel, disk, crashed, hist>>
  /\ UNCHANGED <<authzVars, stepVars>>

\* Line 147: the send blocks while the buffer is full.
FU_Send(t) ==
  /\ At(t, "fu_send")
  /\ Len(isUnsealedChannel) < isUnsealedChannelCap
  /\ isUnsealedChannel' = Append(isUnsealedChannel, NilErr)
  /\ hist' = [hist EXCEPT !.sent[frame[t].op] = @ + 1]
  /\ Upd(t, ReturnFromLoad(frame[t], NilErr))
  /\ UNCHANGED <<credentialsFilename, rawCredentialsFile, profileCredentials,
                 masterStsClient, masterStsRegion, disk, crashed>>
  /\ UNCHANGED <<authzVars, stepVars>>

\* The caller takes the result; the thread is free for another call.
Return(t) ==
  /\ At(t, "returned")
  /\ Upd(t, IdleFrame)
  /\ LET f == frame[t]
     IN hist' = IF f.op = "pnus" /\ ~f.ready /\ f.err # NilErr
                  THEN [hist EXCEPT !.retWrong = @ + 1]
                ELSE IF f.op = "pnus" /\ ~f.ready
                  THEN [hist EXCEPT !.retEmpty = @ + 1]
                ELSE hist
  /\ UNCHANGED <<brokerVars, disk, crashed>>
  /\ UNCHANGED <<authzVars, stepVars>>

\* Two threads store into the Go map at once, or one indexes it while the
\* other stores: the runtime may stop the process.
Crash(t) ==
  /\ ~crashed
  /\ Writing(t) \/ frame[t].pc = "fu_provider"
  /\ \E u \in Threads \ {t} : Writing(u)
  /\ crashed' = TRUE
  /\ UNCHANGED <<brokerVars, disk, frame, hist>>
  /\ UNCHANGED <<authzVars, stepVars>>

\* ------------------------------------------------------------ environment
\* A consumer of GetIsUnsealedChannel takes the buffered value.
Receive ==
  /\ ~crashed
  /\ Len(isUnsealedChannel) > 0
  /\ isUnsealedChannel' = Tail(isUnsealedChannel)
  /\ UNCHANGED <<credentialsFilename, rawCredentialsFile, profileCredentials,
                 masterStsClient, masterStsRegion, disk, crashed, frame, hist>>
  /\ UNCHANGED <<authzVars, stepVars>>

\* The file at the configured path is replaced, removed or created.
ChangeFile ==
  /\ ~crashed
  /\ hist.fileChanges < MaxFileChanges
  /\ hist' = [hist EXCEPT !.fileChanges = @ + 1]
  /\ disk' \in DiskStates \ {disk}
  /\ UNCHANGED <<brokerVars, crashed, frame>>
  /\ UNCHANGED <<authzVars, stepVars>>

\* ---------------------------------------------------------- specifications
\* A run starts at most n operations.
CanCall(n) == hist.calls < n

Step(t) ==
  \/ \E s \in Secrets : CanCall(MaxOverlapCalls) /\ PNUS_Begin(t, s)
  \/ PNUS_Decode(t)
  \/ CanCall(MaxOverlapCalls) /\ Load_Begin(t)
  \/ Load_Check(t)
  \/ LCB_Section(t)
  \/ LCB_Check(t)
  \/ FU_Provider(t)
  \/ FU_Client(t)
  \/ FU_Region(t)
  \/ FU_Send(t)
  \/ Return(t)

\* Calls from any thread, overlapping freely.
Next ==
  \/ \E t \in Threads : Step(t)
  \/ \E t \in Threads : Crash(t)
  \/ Receive
  \/ ChangeFile

Spec == Init /\ [][Next]_vars

\* One call at a time: a thread steps only while every other thread is idle.
OthersIdle(t) == \A u \in Threads \ {t} : frame[u].pc = "idle"

SeqNext ==
  \/ \E t \in Threads, s \in Secrets :
       CanCall(MaxCalls) /\ OthersIdle(t) /\ PNUS_Begin(t, s)
  \/ \E t \in Threads : OthersIdle(t) /\ PNUS_Decode(t)
  \/ \E t \in Threads : CanCall(MaxCalls) /\ OthersIdle(t) /\ Load_Begin(t)
  \/ \E t \in Threads : OthersIdle(t) /\ Load_Check(t)
  \/ \E t \in Threads : OthersIdle(t) /\ LCB_Section(t)
  \/ \E t \in Threads : OthersIdle(t) /\ LCB_Check(t)
  \/ \E t \in Threads : OthersIdle(t) /\ FU_Provider(t)
  \/ \E t \in Threads : OthersIdle(t) /\ FU_Client(t)
  \/ \E t \in Threads : OthersIdle(t) /\ FU_Region(t)
  \/ \E t \in Threads : OthersIdle(t) /\ FU_Send(t)
  \/ \E t \in Threads : OthersIdle(t) /\ Return(t)
  \/ Receive
  \/ ChangeFile

SeqSpec == Init /\ [][SeqNext]_vars

(***************************************************************************)
(* Part 2: authorization (updateConfiguration, getUserAllowedAccounts,     *)
(* isUserAllowedToAssumeRole and what they call).  A call is one step: it  *)
(* reads the clock, the caches, the identity provider and the cloud as     *)
(* they are, and leaves the caches as the call leaves them.                *)
(***************************************************************************)

\* ------------------------------------------------------- program constants
cacheDuration == 300
roleCacheDuration == 1800
negativeCacheSeconds == 15

\* ------------------------------------------------------ role enumeration
\* cloud[a]: whether STS lets the master assume the listing role in account
\* a, how IAM ListRoles ends there ("ok", "error", or "timeout": not done
\* when the watchdog fires), and the roles it lists.

\* getStsClient(masterAWSProfileName), then accountIDFromName and AssumeRole
\* (withProfileAssumeRole, lines 299-332): whether the master can list.
MasterCanAssume(accountName) ==
  /\ masterStsClient # << >>
  /\ \E i \in 1..Len(config[1].AWS.Account) :
       config[1].AWS.Account[i].Name = accountName
  /\ cloud[accountName].assume

\* withAWSCredentialsProviderGetAWSRoleList, lines 336-389: the sorted role
\* names, or the error of the listing or of the watchdog.
ListRoles(accountName) ==
  IF cloud[accountName].list = "ok"
    THEN [roles |-> SortStrings(cloud[accountName].roles), err |-> NilErr]
    ELSE IF cloud[accountName].list = "timeout"
      THEN [roles |-> << >>, err |-> "AWS Get roles had a timeout"]
      ELSE [roles |-> << >>, err |-> "list roles error"]

\* Lines 410-424: the master's answer when it has no error, else the
\* fallback with the account's own profile.
MasterOrFallback(accountName, viaMaster) ==
  IF viaMaster.err = NilErr
    THEN viaMaster
    ELSE IF ~getCredentialsProviderFromProfile(
                accountName, [err |-> TRUE, region |-> ""]).err
      THEN ListRoles(accountName)
      ELSE [roles |-> << >>, err |-> "invalid profileName"]

\* masterGetAWSRolesForAccount, lines 391-405.
masterGetAWSRolesForAccount(accountName) ==
  IF MasterCanAssume(accountName)
    THEN ListRoles(accountName)
    ELSE [roles |-> << >>, err |-> "cannot assume role"]

\* getAWSRolesForAccountNonCached, lines 407-425.
getAWSRolesForAccountNonCached(accountName) ==
  MasterOrFallback(accountName, masterGetAWSRolesForAccount(accountName))

\* LastBadTime is << >> while it is the zero time, <<t>> once set.
After(optTime, t) == Len(optTime) > 0 /\ optTime[1] > t

\* getAWSRolesForAccount, lines 430-478, on role cache c, where upstream is
\* what getAWSRolesForAccountNonCached returns if the call gets to it: the
\* result and the cache the call leaves.
RolesFromCacheOr(accountName, c, upstream) ==
  IF accountName \in DOMAIN c
    THEN IF c[accountName].Expiration > now
        THEN [roles |-> c[accountName].Roles, err |-> NilErr, cache |-> c]
      ELSE IF After(c[accountName].LastBadTime, now - negativeCacheSeconds)
        THEN [roles |-> c[accountName].Roles, err |-> NilErr, cache |-> c]
      ELSE IF upstream.err # NilErr
        THEN [roles |-> c[accountName].Roles, err |-> NilErr,
              cache |-> [c EXCEPT ![accountName].LastBadTime = <<now>>]]
      ELSE [roles |-> upstream.roles, err |-> NilErr,
            cache |-> [c EXCEPT ![accountName].Roles = upstream.roles,
                                ![accountName].Expiration = now + roleCacheDuration]]
    ELSE IF upstream.err # NilErr
      THEN [roles |-> upstream.roles, err |-> upstream.err, cache |-> c]
      ELSE [roles |-> upstream.roles, err |-> NilErr,
            cache |-> MapPut(c, accountName,
                             [Roles |-> upstream.roles,
                              Expiration |-> now + roleCacheDuration,
                              LastBadTime |-> << >>])]

getAWSRolesForAccount(accountName, c) ==
  RolesFromCacheOr(accountName, c, getAWSRolesForAccountNonCached(accountName))

\* ------------------------------------------------- authorization resolver
\* stringIntersectionNoDups, lines 480-492: set1 indexed by lower case (a
\* later element replacing an earlier one), then one element per element of
\* set2 that is found, in the casing of set1.
RECURSIVE stringIntersectionNoDups(_, _)
stringIntersectionNoDups(set1, set2) ==
  IF Len(set2) = 0 THEN << >>
  ELSE LET hits == {i \in 1..Len(set1) : ToLower(set1[i]) = ToLower(set2[1])}
           found == IF hits = {} THEN << >>
                    ELSE <<set1[CHOOSE i \in hits : \A j \in hits : j <= i]>>
       IN found \o stringIntersectionNoDups(set1, Tail(set2))

\* Lines 500-508.
GroupNameOf(account) ==
  ToLower(IF Len(account.GroupName) = 0 THEN account.Name ELSE account.GroupName)
GroupList(accounts) == [i \in 1..Len(accounts) |-> GroupNameOf(accounts[i])]
GroupToAccountName(accounts) ==
  [g \in Range(GroupList(accounts)) |->
     accounts[CHOOSE i \in 1..Len(accounts) :
                /\ GroupNameOf(accounts[i]) = g
                /\ \A j \in 1..Len(accounts) : GroupNameOf(accounts[j]) = g => j <= i].Name]

\* Lines 518-526: the suffixes the user's groups give for one group name.
RECURSIVE Captures(_, _)
Captures(name, userGroups) ==
  IF Len(userGroups) = 0 THEN << >>
  ELSE GroupMatch(name, userGroups[1]) \o Captures(name, Tail(userGroups))

MapAppend(m, k, strs) ==
  IF Len(strs) = 0 THEN m
  ELSE IF k \in DOMAIN m THEN [m EXCEPT ![k] = @ \o strs]
  ELSE MapPut(m, k, strs)

NoRolesMap == [k \in {} |-> << >>]

\* Lines 509-527: allowedRoles, keyed by lower-cased group name.
RECURSIVE AllowedFromGroups(_, _)
AllowedFromGroups(groupList, userGroups) ==
  IF Len(groupList) = 0 THEN NoRolesMap
  ELSE LET n == Len(groupList)
           m == AllowedFromGroups(SubSeq(groupList, 1, n - 1), userGroups)
       IN MapAppend(m, groupList[n], Captures(groupList[n], userGroups))

\* The extra roles of every account, keyed by the name of the first account.
RECURSIVE AddExtraRoles_UnderFirstName(_, _)
AddExtraRoles_UnderFirstName(m, accounts) ==
  IF Len(accounts) = 0 THEN m
  ELSE LET n == Len(accounts)
           before == AddExtraRoles_UnderFirstName(m, SubSeq(accounts, 1, n - 1))
       IN IF Len(accounts[n].ExtraUserRoles) < 1
            THEN before
            ELSE MapAppend(before, accounts[1].Name, accounts[n].ExtraUserRoles)

\* Lines 529-539: the extra roles, keyed by account.Name.
RECURSIVE AddExtraRoles(_, _)
AddExtraRoles(m, accounts) ==
  IF Len(accounts) = 0 THEN m
  ELSE LET n == Len(accounts)
           before == AddExtraRoles(m, SubSeq(accounts, 1, n - 1))
       IN IF Len(accounts[n].ExtraUserRoles) < 1
            THEN before
            ELSE MapAppend(before, accounts[n].Name, accounts[n].ExtraUserRoles)

\* accountHumanNameFromName, lines 118-128, for a configured account.
accountHumanNameFromName(accounts, accountName) ==
  LET i == CHOOSE i \in 1..Len(accounts) :
             /\ accounts[i].Name = accountName
             /\ \A j \in 1..Len(accounts) : accounts[j].Name = accountName => i <= j
  IN IF accounts[i].DisplayName # NoStr THEN accounts[i].DisplayName
     ELSE accounts[i].Name

RECURSIVE SeqOfSet(_)
SeqOfSet(S) ==
  IF S = {} THEN << >>
  ELSE LET x == CHOOSE x \in S : TRUE IN <<x>> \o SeqOfSet(S \ {x})

\* The body of one worker, lines 556-571: the account it reports (none, or
\* one), given the roles of the account and the roles allowed.
WorkerReport(accounts, accountName, rolesForAccount, allowed) ==
  IF rolesForAccount.err # NilErr
       \/ Len(stringIntersectionNoDups(rolesForAccount.roles, allowed)) < 1
    THEN << >>
    ELSE << [Name |-> accountName,
             HumanName |-> accountHumanNameFromName(accounts, accountName),
             PermittedRoleName |->
               SortStrings(stringIntersectionNoDups(rolesForAccount.roles, allowed))] >>

\* Lines 544-574, one worker after another over the keys: the accounts
\* reported, after those in reported, and the role cache the workers leave.
RECURSIVE RunWorkers(_, _, _, _, _)
WorkersFrom(keys, allowedRoles, accounts, accountName, rolesForAccount, reported) ==
  RunWorkers(Tail(keys), allowedRoles, accounts, rolesForAccount.cache,
             reported \o WorkerReport(accounts, accountName, rolesForAccount,
                                      allowedRoles[keys[1]]))

RunWorkers(keys, allowedRoles, accounts, c, reported) ==
  IF Len(keys) = 0 THEN [permitted |-> reported, cache |-> c]
  ELSE WorkersFrom(keys, allowedRoles, accounts,
                   GroupToAccountName(accounts)[keys[1]],
                   getAWSRolesForAccount(GroupToAccountName(accounts)[keys[1]], c),
                   reported)

\* Lines 544-553: the keys of allowedRoles workers are started for.  When a
\* key maps to no account the loop returns at it, after it has started the
\* workers of the keys in started (those the map iteration met first).
AllMapped(allowedRoles, accounts) ==
  DOMAIN allowedRoles \subseteq DOMAIN GroupToAccountName(accounts)
StartedKeys(allowedRoles, accounts, started) ==
  IF AllMapped(allowedRoles, accounts)
    THEN DOMAIN allowedRoles
    ELSE DOMAIN allowedRoles \cap DOMAIN GroupToAccountName(accounts) \cap started

\* Lines 546-548 and 574-576: what the call returns, w being what the
\* workers leave.
WorkersResult(allowedRoles, accounts, w) ==
  IF AllMapped(allowedRoles, accounts)
    THEN [val |-> w.permitted, err |-> NilErr, roleCache |-> w.cache]
    ELSE [val |-> << >>, err |-> "Cannot map to accountname", roleCache |-> w.cache]

\* Lines 541-576.
ResolveAllowedRoles(allowedRoles, accounts, started) ==
  WorkersResult(allowedRoles, accounts,
                RunWorkers(SeqOfSet(StartedKeys(allowedRoles, accounts, started)),
                           allowedRoles, accounts, accountRoleCache, << >>))

\* getUserAllowedAccountsFromGroups, lines 494-577.
getUserAllowedAccountsFromGroups(userGroups, started) ==
  IF \E i \in 1..Len(config[1].AWS.Account) :
       ~RegexCompiles(GroupList(config[1].AWS.Account)[i])
    THEN [val |-> << >>, err |-> "regexp error", roleCache |-> accountRoleCache]
    ELSE ResolveAllowedRoles(
           AddExtraRoles(AllowedFromGroups(GroupList(config[1].AWS.Account), userGroups),
                         config[1].AWS.Account),
           config[1].AWS.Account, started)

\* The active groups getter: the identity provider, behind the prefix
\* filter when one is configured.
HasPrefix(str, prefix) ==
  Len(str) >= Len(prefix) /\ SubSeq(str, 1, Len(prefix)) = prefix
GetUserGroups(username) ==
  IF ~idp.ok THEN [groups |-> << >>, err |-> "idp error"]
  ELSE [groups |-> SelectSeq(idp.groups[username],
                             LAMBDA g : HasPrefix(g, userInfo[1].prefix)),
        err |-> NilErr]

\* Lines 583-589, g being what GetUserGroups returned.
FromUserGroups(g, started) ==
  IF g.err # NilErr
    THEN [val |-> << >>, err |-> g.err, roleCache |-> accountRoleCache]
    ELSE getUserAllowedAccountsFromGroups(g.groups, started)

\* getUserAllowedAccountsNonCached, lines 579-590.
getUserAllowedAccountsNonCached(username, started) ==
  IF config = << >>
    THEN [val |-> << >>, err |-> "nil config", roleCache |-> accountRoleCache]
    ELSE FromUserGroups(GetUserGroups(username), started)

\* getUserAllowedAccounts returning the error of a failed refresh.
AccountsFromCacheOr_NoStale(username, c, fresh) ==
  IF username \in DOMAIN c /\ c[username].Expiration > now
    THEN [val |-> c[username].PermittedAccounts, err |-> NilErr,
          userCache |-> c, roleCache |-> accountRoleCache]
    ELSE IF fresh.err # NilErr
      THEN [val |-> fresh.val, err |-> fresh.err,
            userCache |-> c, roleCache |-> fresh.roleCache]
      ELSE [val |-> fresh.val, err |-> NilErr,
            userCache |-> MapPut(c, username,
                                 [PermittedAccounts |-> fresh.val,
                                  Expiration |-> now + cacheDuration]),
            roleCache |-> fresh.roleCache]

\* getUserAllowedAccounts, lines 594-627, on user cache c, where fresh is
\* what getUserAllowedAccountsNonCached returns if the call gets to it: the
\* result and both caches as the call leaves them.
AccountsFromCacheOr(username, c, fresh) ==
  IF username \in DOMAIN c
    THEN IF c[username].Expiration > now
           THEN [val |-> c[username].PermittedAccounts, err |-> NilErr,
                 userCache |-> c, roleCache |-> accountRoleCache]
         ELSE IF fresh.err # NilErr
           THEN [val |-> c[username].PermittedAccounts, err |-> NilErr,
                 userCache |-> c, roleCache |-> fresh.roleCache]
         ELSE [val |-> fresh.val, err |-> NilErr,
               userCache |-> [c EXCEPT ![username] =
                                [PermittedAccounts |-> fresh.val,
                                 Expiration |-> now + cacheDuration]],
               roleCache |-> fresh.roleCache]
    ELSE IF fresh.err # NilErr
      THEN [val |-> fresh.val, err |-> fresh.err,
            userCache |-> c, roleCache |-> fresh.roleCache]
      ELSE [val |-> fresh.val, err |-> NilErr,
            userCache |-> MapPut(c, username,
                                 [PermittedAccounts |-> fresh.val,
                                  Expiration |-> now + cacheDuration]),
            roleCache |-> fresh.roleCache]

getUserAllowedAccounts(username, started) ==
  AccountsFromCacheOr(username, userAllowedCredentialsCache,
                      getUserAllowedAccountsNonCached(username, started))

\* The loop without its test of the account name.
RoleFound_AnyAccount(permittedAccount, accountName, roleName) ==
  \E i \in 1..Len(permittedAccount) :
    \E j \in 1..Len(permittedAccount[i].PermittedRoleName) :
      permittedAccount[i].PermittedRoleName[j] = roleName

\* The loop of isUserAllowedToAssumeRole, lines 635-645.
RoleFound(permittedAccount, accountName, roleName) ==
  \E i \in 1..Len(permittedAccount) :
    /\ ~(permittedAccount[i].Name # accountName)
    /\ \E j \in 1..Len(permittedAccount[i].PermittedRoleName) :
         permittedAccount[i].PermittedRoleName[j] = roleName

\* Lines 632-645, g being what getUserAllowedAccounts returned.
AnswerFrom(g, accountName, roleName) ==
  IF g.err # NilErr
    THEN [ok |-> FALSE, err |-> g.err, userCache |-> g.userCache,
          roleCache |-> g.roleCache]
    ELSE [ok |-> RoleFound(g.val, accountName, roleName), err |-> NilErr,
          userCache |-> g.userCache, roleCache |-> g.roleCache]

\* isUserAllowedToAssumeRole, lines 629-646.
isUserAllowedToAssumeRole(username, accountName, roleName, started) ==
  AnswerFrom(getUserAllowedAccounts(username, started), accountName, roleName)

\* ---------------------------------------------------- authorization calls
\* A configuration that is installed empties the user cache.
UpdateConfiguration_DropsUserCache(c) ==
  /\ IF c = << >>
       THEN /\ UNCHANGED <<config, userInfo, userAllowedCredentialsCache>>
            /\ last' = [NoCall EXCEPT !.op = "UpdateConfiguration",
                                      !.err = "nill config passed", !.val = c]
     ELSE IF ~RegexCompiles(c[1].AWS.GroupPrefix)
       THEN /\ UNCHANGED <<config, userInfo, userAllowedCredentialsCache>>
            /\ last' = [NoCall EXCEPT !.op = "UpdateConfiguration",
                                      !.err = "regexp error", !.val = c]
     ELSE /\ userInfo' = <<[prefix |-> c[1].AWS.GroupPrefix]>>
          /\ config' = c
          /\ userAllowedCredentialsCache' = [u \in {} |-> << >>]
          /\ last' = [NoCall EXCEPT !.op = "UpdateConfiguration", !.val = c]
  /\ hist' = [hist EXCEPT !.calls = @ + 1]
  /\ UNCHANGED <<unsealVars, stepVars, roleFrame, accountRoleCache,
                 now, idp, cloud>>

\* The configuration is assigned before the filter is built.
UpdateConfiguration_ConfigFirst(c) ==
  /\ IF c = << >>
       THEN /\ UNCHANGED <<config, userInfo>>
            /\ last' = [NoCall EXCEPT !.op = "UpdateConfiguration",
                                      !.err = "nill config passed", !.val = c]
     ELSE IF ~RegexCompiles(c[1].AWS.GroupPrefix)
       THEN /\ config' = c
            /\ UNCHANGED userInfo
            /\ last' = [NoCall EXCEPT !.op = "UpdateConfiguration",
                                      !.err = "regexp error", !.val = c]
     ELSE /\ userInfo' = <<[prefix |-> c[1].AWS.GroupPrefix]>>
          /\ config' = c
          /\ last' = [NoCall EXCEPT !.op = "UpdateConfiguration", !.val = c]
  /\ hist' = [hist EXCEPT !.calls = @ + 1]
  /\ UNCHANGED <<unsealVars, stepVars, roleFrame, userAllowedCredentialsCache, accountRoleCache,
                 now, idp, cloud>>

\* updateConfiguration, lines 764-782: nil and a prefix that does not
\* compile are refused and change nothing.
UpdateConfiguration(c) ==
  /\ IF c = << >>
       THEN /\ UNCHANGED <<config, userInfo>>
            /\ last' = [NoCall EXCEPT !.op = "UpdateConfiguration",
                                      !.err = "nill config passed", !.val = c]
     ELSE IF ~RegexCompiles(c[1].AWS.GroupPrefix)
       THEN /\ UNCHANGED <<config, userInfo>>
            /\ last' = [NoCall EXCEPT !.op = "UpdateConfiguration",
                                      !.err = "regexp error", !.val = c]
     ELSE /\ userInfo' = <<[prefix |-> c[1].AWS.GroupPrefix]>>
          /\ config' = c
          /\ last' = [NoCall EXCEPT !.op = "UpdateConfiguration", !.val = c]
  /\ hist' = [hist EXCEPT !.calls = @ + 1]
  /\ UNCHANGED <<unsealVars, stepVars, roleFrame, userAllowedCredentialsCache, accountRoleCache,
                 now, idp, cloud>>

\* The history of enumerations after a call that found role cache c and
\* leaves role cache d: the entries with a new expiry are those a fetch of
\* the call has filled (lines 461-464, 472-475).
EnumeratedAfter(e, c, d) ==
  [a \in DOMAIN e \cup {k \in DOMAIN d :
                           k \notin DOMAIN c \/ d[k].Expiration # c[k].Expiration} |->
     IF a \in DOMAIN d /\ (a \notin DOMAIN c \/ d[a].Expiration # c[a].Expiration)
       THEN d[a].Roles ELSE e[a]]

\* A call returns: the caches are as it leaves them, ret is what the
\* caller gets.
ReturnAuthz(op, username, res, ret) ==
  /\ userAllowedCredentialsCache' = res.userCache
  /\ accountRoleCache' = res.roleCache
  /\ last' = [ret EXCEPT !.op = op, !.username = username, !.err = res.err]
  /\ hist' = [hist EXCEPT !.calls = @ + 1,
                          !.enumerated = EnumeratedAfter(@, accountRoleCache,
                                                         res.roleCache)]
  /\ UNCHANGED <<unsealVars, stepVars, roleFrame, config, userInfo, now, idp, cloud>>

AccountsReturned(g) == [NoCall EXCEPT !.val = g.val]
AnswerReturned(r) == [NoCall EXCEPT !.ok = r.ok]
ReturnAccounts(username, g) ==
  ReturnAuthz("GetUserAllowedAccounts", username, g, AccountsReturned(g))
ReturnAnswer(username, r) ==
  ReturnAuthz("IsUserAllowedToAssumeRole", username, r, AnswerReturned(r))

\* GetUserAllowedAccounts (api.go, line 68) on getUserAllowedAccounts.
GetUserAllowedAccounts(username, started) ==
  ReturnAccounts(username, getUserAllowedAccounts(username, started))

\* IsUserAllowedToAssumeRole (api.go, line 72) on isUserAllowedToAssumeRole.
IsUserAllowedToAssumeRole(username, accountName, roleName, started) ==
  ReturnAnswer(username,
               isUserAllowedToAssumeRole(username, accountName, roleName, started))

\* -------------------------------------------------- authorization: inputs
MaxAuthzCalls == 3
MaxTicks == 2
MaxUpstreamChanges == 1

\* A prefix that regexp.Compile refuses.
ConfigBadPrefix ==
  Configuration(<<"(">>, << Account(AcctA, "1", NoStr, NoStr, << >>) >>)
ConfigInputs == {<< >>} \cup {<<c>> : c \in Configs \cup {ConfigBadPrefix}}

RoleNames == {RoleRo, RoleAd, RoleRoLower}
\* The arguments the calls of a run are made with.
AccountArgs == {AcctA, AcctO}
RoleArgs == {RoleRo, RoleAd}
GroupKeys == {AcctA, AcctO}
TickSeconds == {10, cacheDuration, roleCacheDuration}

\* The broker after LoadCredentialsFile has read a plaintext file with the
\* master profile and the profile of account "ot".
UnsealedBroker ==
  /\ credentialsFilename = "/credentials-filename"
  /\ rawCredentialsFile = NoBytes
  /\ profileCredentials =
       MapPut(MapPut(EmptyProfiles, MasterSection.name, ProfileEntry(MasterSection)),
              OtherSection.name, ProfileEntry(OtherSection))
  /\ masterStsClient =
       << [Credentials |-> [kind |-> "static", id |-> MasterSection.accessKeyID,
                            secret |-> MasterSection.secretAccessKey],
           Region |-> defaultRegion] >>
  /\ masterStsRegion = defaultRegion
  /\ isUnsealedChannel = <<NilErr>>
  /\ disk = PlainFile(TextBoth)

\* The broker as newBroker leaves it, the file on disk armored.
SealedBroker ==
  /\ credentialsFilename = "/credentials-filename"
  /\ rawCredentialsFile = NoBytes
  /\ profileCredentials = EmptyProfiles
  /\ masterStsClient = << >>
  /\ masterStsRegion = ""
  /\ isUnsealedChannel = << >>
  /\ disk = PgpFile(TRUE, "password", TRUE, TextBoth)

\* ---------------------------------------------- authorization: environment
Tick(d) ==
  /\ hist.ticks < MaxTicks
  /\ now' = now + d
  /\ hist' = [hist EXCEPT !.ticks = @ + 1]
  /\ UNCHANGED <<unsealVars, stepVars, roleFrame, config, userInfo, userAllowedCredentialsCache,
                 accountRoleCache, idp, cloud, last>>

IdpChange ==
  /\ hist.upstreamChanges < MaxUpstreamChanges
  /\ idp' \in IdpStates \ {idp}
  /\ hist' = [hist EXCEPT !.upstreamChanges = @ + 1]
  /\ UNCHANGED <<unsealVars, stepVars, roleFrame, config, userInfo, userAllowedCredentialsCache,
                 accountRoleCache, now, cloud, last>>

CloudChange ==
  /\ hist.upstreamChanges < MaxUpstreamChanges
  /\ cloud' \in CloudStates \ {cloud}
  /\ hist' = [hist EXCEPT !.upstreamChanges = @ + 1]
  /\ UNCHANGED <<unsealVars, stepVars, roleFrame, config, userInfo, userAllowedCredentialsCache,
                 accountRoleCache, now, idp, last>>

\* ------------------------------------------ authorization: specification
AuthzInit ==
  /\ UnsealedBroker \/ SealedBroker
  /\ crashed = FALSE
  /\ frame = [t \in Threads |-> IdleFrame]
  /\ hist = InitHist
  /\ NewAuthzState
  /\ idp = [ok |-> TRUE, groups |-> [u \in Users |-> << >>]]
  /\ cloud = [a \in CloudNames |-> Healthy]

AuthzNext ==
  \/ \E c \in ConfigInputs : CanCall(MaxAuthzCalls) /\ UpdateConfiguration(c)
  \/ \E u \in Users, started \in SUBSET GroupKeys :
       CanCall(MaxAuthzCalls) /\ GetUserAllowedAccounts(u, started)
  \/ \E u \in Users, a \in AccountArgs, r \in RoleArgs, started \in SUBSET GroupKeys :
       CanCall(MaxAuthzCalls) /\ IsUserAllowedToAssumeRole(u, a, r, started)
  \/ \E d \in TickSeconds : Tick(d)
  \/ IdpChange
  \/ CloudChange

AuthzSpec == AuthzInit /\ [][AuthzNext]_vars

\* --------------------------------------------- the resolver: specification
\* The resolver on a cold cache, over the configurations, group lists and
\* cloud states a deployment may have when the first calls arrive.
MaxResolverCalls == 2

\* Two accounts, neither with extra roles.
ConfigPlain ==
  Configuration(NoStr,
    << Account(AcctA, "1", NoStr, NoStr, << >>),
       Account(AcctO, "2", NoStr, NoStr, << >>) >>)
\* One account whose group name is not its name, with an extra role.
ConfigGrouped ==
  Configuration(NoStr,
    << Account(AcctO, "2", NoStr, AcctA, <<RoleAd>>) >>)
ResolverConfigInputs ==
  ConfigInputs \cup {<<ConfigPlain>>, <<ConfigGrouped>>}

ResolverInit ==
  /\ UnsealedBroker \/ SealedBroker
  /\ crashed = FALSE
  /\ frame = [t \in Threads |-> IdleFrame]
  /\ hist = InitHist
  /\ NewAuthzState
  /\ idp \in IdpStates
  /\ cloud \in CloudStates

ResolverNext ==
  \/ \E c \in ResolverConfigInputs :
       CanCall(MaxResolverCalls) /\ UpdateConfiguration(c)
  \/ \E u \in Users, started \in SUBSET GroupKeys :
       CanCall(MaxResolverCalls) /\ GetUserAllowedAccounts(u, started)
  \/ \E u \in Users, a \in AccountArgs, r \in RoleArgs, started \in SUBSET GroupKeys :
       CanCall(MaxResolverCalls) /\ IsUserAllowedToAssumeRole(u, a, r, started)

ResolverSpec == ResolverInit /\ [][ResolverNext]_vars

\* ------------------------------------ getAWSRolesForAccount, step by step
\* The accounts of the configuration, which are what the callers pass.
IsConfiguredAccount(accountName) ==
  /\ config # << >>
  /\ \E i \in 1..Len(config[1].AWS.Account) :
       config[1].AWS.Account[i].Name = accountName

UpdRole(t, f) == roleFrame' = [roleFrame EXCEPT ![t] = f]

\* The test of line 442 alone.
ServedFromCache_OnlyRecentlyBad(ok, entry) ==
  ok /\ After(entry.LastBadTime, now - negativeCacheSeconds)

\* Lines 438-445: the copy read from the map is served without a fetch.
ServedFromCache(ok, entry) ==
  ok /\ (\/ entry.Expiration > now
         \/ After(entry.LastBadTime, now - negativeCacheSeconds))

\* Lines 433-445: the map read under the mutex, then the test of the copy.
RC_Begin(t, accountName) ==
  /\ roleFrame[t].pc = "idle"
  /\ IsConfiguredAccount(accountName)
  /\ LET ok == accountName \in DOMAIN accountRoleCache
         entry == IF ok THEN accountRoleCache[accountName] ELSE NoRoleEntry
     IN UpdRole(t, [IdleRoleFrame EXCEPT
                      !.pc = IF ServedFromCache(ok, entry)
                               THEN "returned" ELSE "fetch",
                      !.account = accountName, !.ok = ok, !.entry = entry,
                      !.roles = IF ServedFromCache(ok, entry)
                                  THEN entry.Roles ELSE << >>,
                      !.pre = <<accountRoleCache>>, !.t0 = now, !.t1 = now])
  /\ hist' = [hist EXCEPT !.calls = @ + 1]
  /\ UNCHANGED <<unsealVars, stepVars, config, userInfo, userAllowedCredentialsCache,
                 accountRoleCache, now, idp, cloud, last>>

\* Lines 448 and 468: the call of getAWSRolesForAccountNonCached.
Fetched(t, value) ==
  /\ UpdRole(t, [roleFrame[t] EXCEPT !.pc = "store", !.value = value,
                                     !.fetches = @ + 1, !.via = "none",
                                     !.page = "none"])
  /\ hist' = IF value.err # NilErr THEN hist
             ELSE [hist EXCEPT !.enumerated =
                     MapPut(@, roleFrame[t].account, value.roles)]
RC_Fetch(t) ==
  /\ roleFrame[t].pc = "fetch"
  /\ Fetched(t, getAWSRolesForAccountNonCached(roleFrame[t].account))
  /\ UNCHANGED <<unsealVars, stepVars, config, userInfo,
                 userAllowedCredentialsCache, accountRoleCache, now, idp,
                 cloud, last>>

\* The copy written back without line 455.
EntryToWrite_NoBadTime(f) ==
  IF f.value.err # NilErr
    THEN f.entry
    ELSE [f.entry EXCEPT !.Roles = f.value.roles,
                         !.Expiration = now + roleCacheDuration]

\* The copy as lines 455 and 461-462 (472-473) change it before the write.
EntryToWrite(f) ==
  IF f.value.err # NilErr
    THEN [f.entry EXCEPT !.LastBadTime = <<now>>]
    ELSE [f.entry EXCEPT !.Roles = f.value.roles,
                         !.Expiration = now + roleCacheDuration]

\* A failed refresh returns its error whether or not an entry was read.
RC_Store_ReturnsRefreshError(t) ==
  /\ roleFrame[t].pc = "store"
  /\ LET f == roleFrame[t]
     IN IF f.value.err # NilErr
          THEN /\ UpdRole(t, [f EXCEPT !.pc = "returned",
                                       !.roles = f.value.roles,
                                       !.err = f.value.err, !.t1 = now])
               /\ UNCHANGED accountRoleCache
          ELSE /\ UpdRole(t, [f EXCEPT !.pc = "returned",
                                       !.roles = f.value.roles, !.t1 = now])
               /\ accountRoleCache' =
                    MapPut(accountRoleCache, f.account, EntryToWrite(f))
  /\ UNCHANGED <<unsealVars, stepVars, hist, config, userInfo,
                 userAllowedCredentialsCache, now, idp, cloud, last>>

\* Lines 449-466 and 469-477: the copy is written back whole under the
\* mutex, except that a failed fetch with no entry read returns the error.
RC_Store(t) ==
  /\ roleFrame[t].pc = "store"
  /\ LET f == roleFrame[t]
     IN IF f.value.err # NilErr /\ ~f.ok
          THEN /\ UpdRole(t, [f EXCEPT !.pc = "returned",
                                       !.roles = f.value.roles,
                                       !.err = f.value.err, !.t1 = now])
               /\ UNCHANGED accountRoleCache
          ELSE /\ UpdRole(t, [f EXCEPT !.pc = "returned",
                                       !.roles = IF f.value.err # NilErr
                                                   THEN f.entry.Roles
                                                   ELSE f.value.roles,
                                       !.t1 = now])
               /\ accountRoleCache' =
                    MapPut(accountRoleCache, f.account, EntryToWrite(f))
  /\ UNCHANGED <<unsealVars, stepVars, hist, config, userInfo,
                 userAllowedCredentialsCache, now, idp, cloud, last>>

\* The call returns to its caller.
RC_Return(t) ==
  /\ roleFrame[t].pc = "returned"
  /\ UpdRole(t, IdleRoleFrame)
  /\ UNCHANGED <<unsealVars, stepVars, hist, config, userInfo,
                 userAllowedCredentialsCache, accountRoleCache, now, idp,
                 cloud, last>>

\* ------------------------------------------ the role cache: specifications
MaxRoleCalls == 4

RoleInit ==
  /\ UnsealedBroker \/ SealedBroker
  /\ crashed = FALSE
  /\ frame = [t \in Threads |-> IdleFrame]
  /\ hist = InitHist
  /\ NewAuthzState
  /\ idp = [ok |-> TRUE, groups |-> [u \in Users |-> << >>]]
  /\ cloud = [a \in CloudNames |-> Healthy]

\* Overlapping calls of getAWSRolesForAccount (the workers of lines 554-572
\* run one per account and per request).
RoleNext ==
  \/ \E c \in ConfigInputs : CanCall(MaxRoleCalls) /\ UpdateConfiguration(c)
  \/ \E t \in Threads, a \in CloudNames :
       CanCall(MaxRoleCalls) /\ RC_Begin(t, a)
  \/ \E t \in Threads : RC_Fetch(t)
  \/ \E t \in Threads : RC_Store(t)
  \/ \E t \in Threads : RC_Return(t)
  \/ \E d \in TickSeconds : Tick(d)
  \/ CloudChange

RoleSpec == RoleInit /\ [][RoleNext]_vars

\* One call at a time.
RoleOthersIdle(t) == \A u \in Threads \ {t} : roleFrame[u].pc = "idle"
RoleAllIdle == \A t \in Threads : roleFrame[t].pc = "idle"

RoleSeqNext ==
  \/ \E c \in ConfigInputs :
       CanCall(MaxRoleCalls) /\ RoleAllIdle /\ UpdateConfiguration(c)
  \/ \E t \in Threads, a \in CloudNames :
       CanCall(MaxRoleCalls) /\ RoleOthersIdle(t) /\ RC_Begin(t, a)
  \/ \E t \in Threads : RC_Fetch(t)
  \/ \E t \in Threads : RC_Store(t)
  \/ \E t \in Threads : RC_Return(t)
  \/ \E u \in Users, started \in SUBSET GroupKeys :
       CanCall(MaxRoleCalls) /\ RoleAllIdle /\ GetUserAllowedAccounts(u, started)
  \/ \E d \in TickSeconds : Tick(d)
  \/ CloudChange

RoleSeqSpec == RoleInit /\ [][RoleSeqNext]_vars

\* ------------------------------------------- role enumeration, step by step
maxRoleRequestsInFlight == 10
getAWSRolesTimeout == 10

\* How long a pagination takes, in seconds, and the error it ends with:
\* where cloud[a].list is "timeout" the pagination is not done when the
\* watchdog fires (11 stands for any longer time), otherwise it is done
\* before the watchdog or at the very second it fires.
PageSeconds == {9, 10, 11}
Paginations(accountName) ==
  { [secs |-> s, err |-> IF cloud[accountName].list = "error"
                           THEN "list roles error" ELSE NilErr] :
      s \in IF cloud[accountName].list = "timeout"
              THEN {x \in PageSeconds : x > getAWSRolesTimeout}
              ELSE {x \in PageSeconds : x <= getAWSRolesTimeout} }

\* Every pagination is done in time.
DoneInTime_Always(secs) == TRUE

\* The select of lines 375-382: the result can be there before the timer
\* fires, and the timer can fire before the result is there (at the very
\* second of the watchdog, either).
DoneInTime(secs) == secs <= getAWSRolesTimeout
WatchdogFires(secs) == secs >= getAWSRolesTimeout

\* The paginations running against IAM, with or without a caller waiting.
InFlight ==
  detached + Cardinality({t \in Threads : roleFrame[t].page = "running"})

IncList(m, accountName) == [m EXCEPT ![accountName] = @ + 1]
IncAssume(m, accountName, roleName) ==
  [m EXCEPT ![<<accountName, roleName>>] = @ + 1]

\* An enumeration has returned err to its caller: masterGetAWSRolesForAccount
\* wraps it (line 396) and getAWSRolesForAccountNonCached goes on to the
\* fallback (line 414), or returns it when it came from the fallback.
ListFailed(t, err) ==
  IF roleFrame[t].via = "master"
    THEN /\ UpdRole(t, [roleFrame[t] EXCEPT !.pc = "fallback", !.via = "none",
                                            !.page = "none"])
         /\ UNCHANGED hist
    ELSE Fetched(t, [roles |-> << >>, err |-> err])

\* Lines 394-403: withProfileAssumeRole with the master profile and the
\* listing role; the counter of line 326 is raised once the client and the
\* account ID are there, the one of line 329 when STS answers.
LF_Master(t) ==
  /\ roleFrame[t].pc = "fetch"
  /\ LET a == roleFrame[t].account
     IN IF masterStsClient = << >> \/ ~IsConfiguredAccount(a)
          THEN /\ UpdRole(t, [roleFrame[t] EXCEPT !.pc = "fallback"])
               /\ UNCHANGED metrics
          ELSE /\ UpdRole(t, [roleFrame[t] EXCEPT
                               !.pc = IF cloud[a].assume THEN "acquire"
                                      ELSE "fallback",
                               !.via = IF cloud[a].assume THEN "master"
                                       ELSE "none"])
               /\ metrics' =
                    [metrics EXCEPT
                       !.assumeAttempt = IncAssume(@, a, listRolesRoleName),
                       !.assumeSuccess =
                          IF cloud[a].assume
                            THEN IncAssume(@, a, listRolesRoleName) ELSE @]
  /\ UNCHANGED <<unsealVars, extraVars, hist, listRolesSemaphore, detached, userFrame,
                 config, userInfo, userAllowedCredentialsCache,
                 accountRoleCache, now, idp, cloud, last>>

\* Lines 418-422: the fallback with the profile named after the account.
LF_Fallback(t) ==
  /\ roleFrame[t].pc = "fallback"
  /\ IF getCredentialsProviderFromProfile(
          roleFrame[t].account, [err |-> TRUE, region |-> ""]).err
       THEN Fetched(t, [roles |-> << >>, err |-> "invalid profileName"])
       ELSE /\ UpdRole(t, [roleFrame[t] EXCEPT !.pc = "acquire",
                                               !.via = "profile"])
            /\ UNCHANGED hist
  /\ UNCHANGED <<unsealVars, stepVars, config, userInfo,
                 userAllowedCredentialsCache, accountRoleCache, now, idp,
                 cloud, last>>

\* Lines 349-374: a permit is taken and the goroutine started; its first
\* statement raises the attempt counter (line 360).
L_Acquire(t, p) ==
  /\ roleFrame[t].pc = "acquire"
  /\ listRolesSemaphore < maxRoleRequestsInFlight
  /\ listRolesSemaphore' = listRolesSemaphore + 1
  /\ metrics' = [metrics EXCEPT
                   !.listAttempt = IncList(@, roleFrame[t].account)]
  /\ UpdRole(t, [roleFrame[t] EXCEPT !.pc = "select", !.page = "running",
                                     !.secs = p.secs, !.pageErr = p.err])
  /\ hist' = [hist EXCEPT !.paginations = @ + 1]
  /\ UNCHANGED <<unsealVars, extraVars, detached, userFrame, config, userInfo,
                 userAllowedCredentialsCache, accountRoleCache, now, idp,
                 cloud, last>>

\* Lines 362-373: the pagination ends within the watchdog's time and the
\* goroutine sends its error, or nil, on the buffered channel.
L_PageDone(t) ==
  /\ roleFrame[t].pc = "select"
  /\ roleFrame[t].page = "running"
  /\ DoneInTime(roleFrame[t].secs)
  /\ UpdRole(t, [roleFrame[t] EXCEPT !.page = "sent"])
  /\ UNCHANGED <<unsealVars, extraVars, hist, stepVars, config, userInfo,
                 userAllowedCredentialsCache, accountRoleCache, now, idp,
                 cloud, last>>

\* Lines 376-379 and 384-388, with the deferred Release of line 353: the
\* caller receives what the goroutine sent.
L_Receive(t) ==
  /\ roleFrame[t].pc = "select"
  /\ roleFrame[t].page = "sent"
  /\ listRolesSemaphore' = listRolesSemaphore - 1
  /\ IF roleFrame[t].pageErr # NilErr
       THEN /\ ListFailed(t, roleFrame[t].pageErr)
            /\ UNCHANGED metrics
       ELSE /\ metrics' = [metrics EXCEPT
                             !.listSuccess = IncList(@, roleFrame[t].account)]
            /\ Fetched(t, [roles |-> SortStrings(cloud[roleFrame[t].account].roles),
                           err |-> NilErr])
  /\ UNCHANGED <<unsealVars, extraVars, detached, userFrame, config, userInfo,
                 userAllowedCredentialsCache, accountRoleCache, now, idp,
                 cloud, last>>

\* Lines 380-381, with the deferred Release of line 353: the watchdog fires
\* and the caller returns; a goroutine that has not sent yet runs on.
L_Timeout(t) ==
  /\ roleFrame[t].pc = "select"
  /\ WatchdogFires(roleFrame[t].secs)
  /\ listRolesSemaphore' = listRolesSemaphore - 1
  /\ detached' = IF roleFrame[t].page = "running" THEN detached + 1
                 ELSE detached
  /\ ListFailed(t, "AWS Get roles had a timeout")
  /\ UNCHANGED <<unsealVars, extraVars, metrics, userFrame, config, userInfo,
                 userAllowedCredentialsCache, accountRoleCache, now, idp,
                 cloud, last>>

\* Line 356: c := make(chan error, 1).
resultChannelCap == 1

\* The channel c without buffer: a send needs a receiver.
CanSend_Unbuffered(callerInSelect) == callerInSelect

\* A goroutine sends on c once, at line 367 or at line 373, and nothing
\* else does: the send has room when c has a buffer, and otherwise needs
\* the caller to be receiving in the select.
CanSend(callerInSelect) == callerInSelect \/ 0 < resultChannelCap

\* Lines 362-373 in a goroutine whose caller is gone: the pagination ends,
\* the send on the buffered channel is read by nobody.
L_DetachedDone ==
  /\ detached > 0
  /\ CanSend(FALSE)
  /\ detached' = detached - 1
  /\ UNCHANGED <<unsealVars, extraVars, hist, authzVars, listRolesSemaphore, metrics,
                 userFrame>>

\* ------------------------------------------- role enumeration: specification
MaxListCalls == 7

\* Every account slow to list.
SlowCloud == [a \in CloudNames |-> CloudAccount(TRUE, "timeout", <<RoleRo, RoleAd>>)]
ListClouds == {c \in CloudStates : c[AcctA] = Healthy} \cup {SlowCloud}

ListInit ==
  /\ UnsealedBroker
  /\ crashed = FALSE
  /\ frame = [t \in Threads |-> IdleFrame]
  /\ hist = InitHist
  /\ NewAuthzState
  /\ idp = [ok |-> TRUE, groups |-> [u \in Users |-> << >>]]
  /\ cloud \in ListClouds

\* Overlapping calls of getAWSRolesForAccount, their enumerations taken step
\* by step.
ListNext ==
  \/ CanCall(MaxListCalls) /\ config = << >> /\ UpdateConfiguration(<<ConfigTwo>>)
  \/ \E t \in Threads, a \in AccountArgs :
       CanCall(MaxListCalls) /\ RC_Begin(t, a)
  \/ \E t \in Threads : LF_Master(t)
  \/ \E t \in Threads : LF_Fallback(t)
  \/ \E t \in Threads :
       /\ roleFrame[t].pc = "acquire"
       /\ \E p \in Paginations(roleFrame[t].account) : L_Acquire(t, p)
  \/ \E t \in Threads : L_PageDone(t)
  \/ \E t \in Threads : L_Receive(t)
  \/ \E t \in Threads : L_Timeout(t)
  \/ L_DetachedDone
  \/ \E t \in Threads : RC_Store(t)
  \/ \E t \in Threads : RC_Return(t)

ListSpec == ListInit /\ [][ListNext]_vars

\* ------------------------------------------ role enumeration, many callers
\* The callers of withAWSCredentialsProviderGetAWSRoleList counted by their
\* place in lines 349-389, so that more of them than there are permits can
\* be inside at once.
UpdListers(l) == listers' = l

\* A caller gets to line 349.
P_Arrive ==
  /\ UpdListers([listers EXCEPT
                   !.waiting = @ + 1, !.arrived = @ + 1,
                   !.blocked = IF listRolesSemaphore = maxRoleRequestsInFlight
                                 THEN @ + 1 ELSE @])
  /\ UNCHANGED <<unsealVars, server, hist, authzVars, listRolesSemaphore, detached,
                 metrics, userFrame, workers, permittedAccounts>>

\* Lines 349-374: Acquire returns with a permit and the goroutine starts.
P_Acquire ==
  /\ listers.waiting > 0
  /\ listRolesSemaphore < maxRoleRequestsInFlight
  /\ listRolesSemaphore' = listRolesSemaphore + 1
  /\ UpdListers([listers EXCEPT !.waiting = @ - 1, !.running = @ + 1,
                                !.acquired = @ + 1])
  /\ hist' = [hist EXCEPT !.paginations = @ + 1]
  /\ UNCHANGED <<unsealVars, server, authzVars, detached, metrics, userFrame,
                 workers, permittedAccounts>>

\* Lines 362-373: a pagination ends while its caller is in the select, and
\* the goroutine sends its result.
P_PageDone ==
  /\ listers.running > 0
  /\ CanSend(TRUE)
  /\ UpdListers([listers EXCEPT !.running = @ - 1, !.sent = @ + 1,
                                !.sends = @ + 1])
  /\ UNCHANGED <<unsealVars, server, hist, authzVars, listRolesSemaphore, detached,
                 metrics, userFrame, workers, permittedAccounts>>

\* The permit is kept when the watchdog has fired.
Released_NotOnTimeout(path) == IF path = "timeout" THEN 0 ELSE 1

\* The deferred Release(1) of line 353 runs on every return after line 349.
Released(path) == 1

\* Lines 376-379 and 384-388: the caller receives the result, an error or
\* nil, and returns.
P_Receive(path) ==
  /\ listers.sent > 0
  /\ path \in {"nil", "error"}
  /\ listRolesSemaphore' = listRolesSemaphore - Released(path)
  /\ UpdListers([listers EXCEPT !.sent = @ - 1, !.paths = @ \cup {path}])
  /\ UNCHANGED <<unsealVars, server, hist, authzVars, detached, metrics, userFrame,
                 workers, permittedAccounts>>

\* Lines 380-381: the watchdog fires first and the caller returns; a
\* goroutine that has not sent yet runs on.
P_Timeout(sent) ==
  /\ IF sent THEN listers.sent > 0 ELSE listers.running > 0
  /\ listRolesSemaphore' = listRolesSemaphore - Released("timeout")
  /\ detached' = IF sent THEN detached ELSE detached + 1
  /\ UpdListers(IF sent
                  THEN [listers EXCEPT !.sent = @ - 1,
                                       !.paths = @ \cup {"timeout"}]
                  ELSE [listers EXCEPT !.running = @ - 1,
                                       !.paths = @ \cup {"timeout"}])
  /\ UNCHANGED <<unsealVars, server, hist, authzVars, metrics, userFrame, workers,
                 permittedAccounts>>

\* Lines 362-373 in a goroutine whose caller is gone: the pagination ends,
\* the goroutine sends on the channel that nobody reads, and ends.
P_DetachedDone ==
  /\ detached > 0
  /\ CanSend(FALSE)
  /\ detached' = detached - 1
  /\ UpdListers([listers EXCEPT !.sends = @ + 1, !.lateSend = TRUE])
  /\ UNCHANGED <<unsealVars, server, hist, authzVars, listRolesSemaphore, metrics,
                 userFrame, workers, permittedAccounts>>

\* ----------------------------------------------- the permits: specification
MaxListers == 12

PermitNext ==
  \/ listers.arrived < MaxListers /\ P_Arrive
  \/ P_Acquire
  \/ P_PageDone
  \/ \E path \in {"nil", "error"} : P_Receive(path)
  \/ \E sent \in BOOLEAN : P_Timeout(sent)
  \/ P_DetachedDone

\* A caller in the select leaves it: its timer fires after
\* getAWSRolesTimeout whatever upstream does.  Acquire returns once a permit
\* is free.  A pagination whose caller has gone ends, as long as upstream
\* answers at all, and the Go scheduler runs a goroutine that can run.
PermitFairness ==
  /\ WF_vars(P_Acquire)
  /\ WF_vars(\E path \in {"nil", "error"} : P_Receive(path))
  /\ WF_vars(P_Timeout(FALSE))
  /\ WF_vars(P_DetachedDone)

PermitInit == ListInit /\ cloud = [a \in CloudNames |-> Healthy]

PermitSpec == PermitInit /\ [][PermitNext]_vars /\ PermitFairness

\* ----------------------------------------------------- the credential minter
profileAssumeRoleDurationSeconds == 3600

\* The master client is handed out without the nil test of line 276.
getStsClient_NoNilTest(profileName) ==
  IF profileName = masterAWSProfileName
    THEN [err |-> NilErr, region |-> masterStsRegion]
    ELSE LET p == getCredentialsProviderFromProfile(
                    profileName, [err |-> TRUE, region |-> ""])
         IN IF p.err THEN [err |-> "invalid profileName", region |-> ""]
            ELSE [err |-> NilErr, region |-> p.client.Region]

\* getStsClient, lines 274-297 (a profile of the file always has a region,
\* line 221).
getStsClient(profileName) ==
  IF profileName = masterAWSProfileName
    THEN IF masterStsClient = << >>
           THEN [err |-> "no master STS client", region |-> ""]
           ELSE [err |-> NilErr, region |-> masterStsRegion]
    ELSE LET p == getCredentialsProviderFromProfile(
                    profileName, [err |-> TRUE, region |-> ""])
         IN IF p.err THEN [err |-> "invalid profileName", region |-> ""]
            ELSE [err |-> NilErr, region |-> p.client.Region]

\* STS AssumeRole as the cloud answers it: the role must exist in the
\* account, and the master must be trusted there.
StsGrants(profileName, accountName, roleName) ==
  /\ roleName \in Range(cloud[accountName].roles)
  /\ profileName = masterAWSProfileName => cloud[accountName].assume

\* withProfileAssumeRole, lines 299-332: err, the error returned; called,
\* whether AssumeRole was called (lines 326-327); region.
withProfileAssumeRole(accountName, profileName, roleName) ==
  LET c == getStsClient(profileName)
  IN IF c.err # NilErr
       THEN [profile |-> profileName, err |-> c.err, called |-> FALSE,
             region |-> ""]
     ELSE IF ~IsConfiguredAccount(accountName)
       THEN [profile |-> profileName, err |-> "accountNAme not found",
             called |-> FALSE, region |-> ""]
     ELSE [profile |-> profileName,
           err |-> IF StsGrants(profileName, accountName, roleName)
                     THEN NilErr ELSE "AssumeRole error",
           called |-> TRUE, region |-> c.region]

\* accountIDFromName (line 111) reads b.config: a minting call runs to its
\* end when a configuration is loaded, or when no STS client can be had and
\* withProfileAssumeRole returns at line 305 both times.
MintRuns(accountName) ==
  \/ config # << >>
  \/ /\ getStsClient(masterAWSProfileName).err # NilErr
     /\ getStsClient(accountName).err # NilErr

\* Both profiles are always tried.
AssumeWithFallback_Both(accountName, roleName) ==
  << withProfileAssumeRole(accountName, masterAWSProfileName, roleName),
     withProfileAssumeRole(accountName, accountName, roleName) >>

\* Lines 661-670 and 738-747: the calls of withProfileAssumeRole made, in
\* order; the second is made when the first returned an error.
AssumeWithFallback(accountName, roleName) ==
  LET first == withProfileAssumeRole(accountName, masterAWSProfileName, roleName)
  IN IF first.err = NilErr THEN <<first>>
     ELSE <<first, withProfileAssumeRole(accountName, accountName, roleName)>>

\* Both counters are raised for each call of AssumeRole, whatever it returns.
RECURSIVE CountAssumes_SuccessBeforeAnswer(_, _, _, _)
CountAssumes_SuccessBeforeAnswer(m, accountName, roleName, tried) ==
  IF Len(tried) = 0 THEN m
  ELSE LET n == Len(tried)
           before == CountAssumes_SuccessBeforeAnswer(
                       m, accountName, roleName, SubSeq(tried, 1, n - 1))
       IN IF ~tried[n].called THEN before
          ELSE [before EXCEPT
                  !.assumeAttempt = IncAssume(@, accountName, roleName),
                  !.assumeSuccess = IncAssume(@, accountName, roleName)]

\* Lines 326-330 for each call made: the attempt counter when AssumeRole is
\* called, the success counter when it returns no error.
RECURSIVE CountAssumes(_, _, _, _)
CountAssumes(m, accountName, roleName, tried) ==
  IF Len(tried) = 0 THEN m
  ELSE LET n == Len(tried)
           before == CountAssumes(m, accountName, roleName, SubSeq(tried, 1, n - 1))
       IN IF ~tried[n].called THEN before
          ELSE [before EXCEPT
                  !.assumeAttempt = IncAssume(@, accountName, roleName),
                  !.assumeSuccess = IF tried[n].err = NilErr
                                      THEN IncAssume(@, accountName, roleName)
                                      ELSE @]

GovRegions == {"us-gov-west-1", "us-gov-east-1"}

\* What a minting call leaves in last: its arguments, the calls of
\* withProfileAssumeRole it made, and what it returned.
Minted(op, userName, accountName, roleName, tried, err, out) ==
  [op |-> op, username |-> userName, ok |-> err = NilErr, err |-> err,
   val |-> [account |-> accountName, role |-> roleName, tried |-> tried,
            out |-> out]]

\* The bundle of lines 749-758.
TokenBundle(final) ==
  IF final.err # NilErr THEN << >>
  ELSE << [Region |-> IF final.region \in GovRegions THEN final.region ELSE "",
           Expiration |-> now + profileAssumeRoleDurationSeconds] >>

\* The calls of lines 694-727 as the federation endpoint answers them.
FederationAnswers == {"token", "unreachable", "status 400", "not json"}
FederationErr(answer) == IF answer = "token" THEN NilErr ELSE answer

\* The URL of lines 687-692 and 730.
ConsoleURL(final, ferr) ==
  IF final.err # NilErr \/ ferr # NilErr THEN << >>
  ELSE << IF final.region \in GovRegions
            THEN "https://signin.amazonaws-us-gov.com/federation"
            ELSE "https://signin.aws.amazon.com/federation" >>

\* A minting call has made the calls tried and returns err and out; it
\* writes to the audit log (lines 733 and 759) when it returns no error.
MintReturns(op, userName, accountName, roleName, tried, err, out) ==
  /\ metrics' = CountAssumes(metrics, accountName, roleName, tried)
  /\ last' = Minted(op, userName, accountName, roleName, tried, err, out)
  /\ hist' = [hist EXCEPT !.calls = @ + 1,
                          !.audit = IF err = NilErr THEN @ + 1 ELSE @]
  /\ UNCHANGED <<unsealVars, extraVars, listRolesSemaphore, detached, userFrame,
                 roleFrame, config, userInfo, userAllowedCredentialsCache,
                 accountRoleCache, now, idp, cloud>>

\* A minter that asks the user cache first and refuses users without a
\* cached permission for the role.
GenerateTokenCredentials_ChecksPermission(userName, accountName, roleName) ==
  /\ MintRuns(accountName)
  /\ LET tried == AssumeWithFallback(accountName, roleName)
         final == tried[Len(tried)]
         allowed == /\ userName \in DOMAIN userAllowedCredentialsCache
                    /\ RoleFound(userAllowedCredentialsCache[userName].PermittedAccounts,
                                 accountName, roleName)
     IN IF allowed
          THEN MintReturns("generateTokenCredentials", userName, accountName,
                           roleName, tried, final.err, TokenBundle(final))
          ELSE MintReturns("generateTokenCredentials", userName, accountName,
                           roleName, << >>, "not allowed", << >>)

\* generateTokenCredentials, lines 737-762, when it runs to its end.
GenerateTokenCredentials(userName, accountName, roleName) ==
  /\ MintRuns(accountName)
  /\ LET tried == AssumeWithFallback(accountName, roleName)
         final == tried[Len(tried)]
     IN MintReturns("generateTokenCredentials", userName, accountName,
                    roleName, tried, final.err, TokenBundle(final))

\* getConsoleURLForAccountRole, lines 660-735, when it runs to its end;
\* answer is what the federation endpoint does if it is asked.
GetConsoleURLForAccountRole(userName, accountName, roleName, answer) ==
  /\ MintRuns(accountName)
  /\ LET tried == AssumeWithFallback(accountName, roleName)
         final == tried[Len(tried)]
         err == IF final.err # NilErr THEN final.err ELSE FederationErr(answer)
     IN MintReturns("getConsoleURLForAccountRole", userName, accountName,
                    roleName, tried, err, ConsoleURL(final, FederationErr(answer)))

\* ---------------------------------------------- the minter: specifications
MaxMintCalls == 3

\* Minting beside the authorization calls.
MintNext ==
  \/ \E c \in ConfigInputs : CanCall(MaxMintCalls) /\ UpdateConfiguration(c)
  \/ \E u \in Users, started \in SUBSET GroupKeys :
       CanCall(MaxMintCalls) /\ GetUserAllowedAccounts(u, started)
  \/ \E u \in Users, a \in CloudNames, r \in RoleArgs :
       CanCall(MaxMintCalls) /\ GenerateTokenCredentials(u, a, r)
  \/ \E u \in Users, a \in CloudNames, r \in RoleArgs, answer \in FederationAnswers :
       CanCall(MaxMintCalls) /\ GetConsoleURLForAccountRole(u, a, r, answer)
  \/ IdpChange
  \/ CloudChange

MintSpec == AuthzInit /\ [][MintNext]_vars

\* --------------------------------------------- the counters: specification
MaxCounterCalls == 3

\* Enumerations step by step beside minting calls: every upstream call of a
\* run is made by an action that counts it.
CounterNext ==
  \/ CanCall(MaxCounterCalls) /\ config = << >> /\ UpdateConfiguration(<<ConfigTwo>>)
  \/ \E t \in Threads, a \in AccountArgs :
       CanCall(MaxCounterCalls) /\ RC_Begin(t, a)
  \/ \E t \in Threads : LF_Master(t)
  \/ \E t \in Threads : LF_Fallback(t)
  \/ \E t \in Threads :
       /\ roleFrame[t].pc = "acquire"
       /\ \E p \in Paginations(roleFrame[t].account) : L_Acquire(t, p)
  \/ \E t \in Threads : L_PageDone(t)
  \/ \E t \in Threads : L_Receive(t)
  \/ \E t \in Threads : L_Timeout(t)
  \/ L_DetachedDone
  \/ \E t \in Threads : RC_Store(t)
  \/ \E t \in Threads : RC_Return(t)
  \/ \E u \in Users, a \in AccountArgs, r \in RoleArgs :
       CanCall(MaxCounterCalls) /\ GenerateTokenCredentials(u, a, r)
  \/ \E u \in Users, a \in AccountArgs, r \in RoleArgs, answer \in FederationAnswers :
       CanCall(MaxCounterCalls) /\ GetConsoleURLForAccountRole(u, a, r, answer)

CounterSpec == ListInit /\ [][CounterNext]_vars

\* --------------------------------- getUserAllowedAccounts, step by step
UpdUser(t, f) == userFrame' = [userFrame EXCEPT ![t] = f]

\* updateConfiguration, lines 766-778, for a configuration it accepts: the
\* getter is assigned (line 770 or 777).
U_WriteUserInfo(t, c) ==
  /\ userFrame[t].pc = "idle"
  /\ c # << >>
  /\ RegexCompiles(c[1].AWS.GroupPrefix)
  /\ userInfo' = <<[prefix |-> c[1].AWS.GroupPrefix]>>
  /\ UpdUser(t, [IdleUserFrame EXCEPT !.pc = "uc_config", !.pending = c])
  /\ hist' = [hist EXCEPT !.calls = @ + 1]
  /\ UNCHANGED <<unsealVars, extraVars, listRolesSemaphore, detached, metrics,
                 roleFrame, config, userAllowedCredentialsCache,
                 accountRoleCache, now, idp, cloud, last>>

\* updateConfiguration, lines 779-781: the configuration is assigned.
U_WriteConfig(t) ==
  /\ userFrame[t].pc = "uc_config"
  /\ config' = userFrame[t].pending
  /\ last' = [NoCall EXCEPT !.op = "UpdateConfiguration",
                            !.val = userFrame[t].pending]
  /\ UpdUser(t, IdleUserFrame)
  /\ UNCHANGED <<unsealVars, extraVars, hist, listRolesSemaphore, detached, metrics,
                 roleFrame, userInfo, userAllowedCredentialsCache,
                 accountRoleCache, now, idp, cloud>>

\* Lines 595-601: the map read under the mutex, then the test of the copy.
UA_Begin(t, username) ==
  /\ userFrame[t].pc = "idle"
  /\ LET ok == username \in DOMAIN userAllowedCredentialsCache
         entry == IF ok THEN <<userAllowedCredentialsCache[username]>>
                  ELSE << >>
         hit == ok /\ entry[1].Expiration > now
     IN UpdUser(t, [IdleUserFrame EXCEPT
                      !.pc = IF hit THEN "returned" ELSE "config",
                      !.username = username, !.ok = ok, !.entry = entry,
                      !.value = IF hit THEN entry[1].PermittedAccounts
                                ELSE << >>])
  /\ hist' = [hist EXCEPT !.calls = @ + 1]
  /\ UNCHANGED <<unsealVars, extraVars, listRolesSemaphore, detached, metrics,
                 roleFrame, config, userInfo, userAllowedCredentialsCache,
                 accountRoleCache, now, idp, cloud, last>>

\* Line 580: b.config is read and compared with nil.
UA_NilCheck(t) ==
  /\ userFrame[t].pc = "config"
  /\ UpdUser(t, IF config = << >>
                  THEN [userFrame[t] EXCEPT
                          !.pc = "store", !.fetches = @ + 1,
                          !.fresh = [val |-> << >>, err |-> "nil config"]]
                  ELSE [userFrame[t] EXCEPT !.pc = "groups", !.seen = config])
  /\ UNCHANGED <<unsealVars, extraVars, hist, listRolesSemaphore, detached, metrics,
                 roleFrame, config, userInfo, userAllowedCredentialsCache,
                 accountRoleCache, now, idp, cloud, last>>

\* Lines 583-586: b.userInfo is read and asked for the user's groups.
GotGroups(t, g) ==
  UpdUser(t, IF g.err # NilErr
               THEN [userFrame[t] EXCEPT
                       !.pc = "store", !.getter = userInfo, !.fetches = @ + 1,
                       !.fresh = [val |-> << >>, err |-> g.err]]
               ELSE [userFrame[t] EXCEPT
                       !.pc = "resolve", !.getter = userInfo,
                       !.groups = g.groups])
UA_GetGroups(t) ==
  /\ userFrame[t].pc = "groups"
  /\ GotGroups(t, GetUserGroups(userFrame[t].username))
  /\ UNCHANGED <<unsealVars, extraVars, hist, listRolesSemaphore, detached, metrics,
                 roleFrame, config, userInfo, userAllowedCredentialsCache,
                 accountRoleCache, now, idp, cloud, last>>

\* Line 589: getUserAllowedAccountsFromGroups with the configuration that
\* b.config holds when it runs; res is what it returns, with the role cache
\* as its workers leave it.
Resolved(t, res) ==
  /\ UpdUser(t, [userFrame[t] EXCEPT
                   !.pc = "store", !.accounts = config, !.fetches = @ + 1,
                   !.fresh = [val |-> res.val, err |-> res.err]])
  /\ accountRoleCache' = res.roleCache
  /\ hist' = [hist EXCEPT !.enumerated =
                 EnumeratedAfter(@, accountRoleCache, res.roleCache)]
UA_Resolve(t, started) ==
  /\ userFrame[t].pc = "resolve"
  /\ Resolved(t, getUserAllowedAccountsFromGroups(userFrame[t].groups, started))
  /\ UNCHANGED <<unsealVars, extraVars, listRolesSemaphore, detached, metrics,
                 roleFrame, config, userInfo, userAllowedCredentialsCache,
                 now, idp, cloud, last>>

\* The accounts of one call appended to those the map holds.
UserEntryToWrite_Merged(f, held) ==
  IF held = << >>
    THEN [PermittedAccounts |-> f.fresh.val, Expiration |-> now + cacheDuration]
    ELSE [PermittedAccounts |-> held[1].PermittedAccounts \o f.fresh.val,
          Expiration |-> now + cacheDuration]

\* Lines 608-609 and 620-621: the copy read at line 596 with both fields
\* replaced; held is what the map holds at the write.
UserEntryToWrite(f, held) ==
  [PermittedAccounts |-> f.fresh.val, Expiration |-> now + cacheDuration]

\* A failure is written to the map as an entry without accounts.
UA_Store_CachesFailure(t) ==
  /\ userFrame[t].pc = "store"
  /\ LET f == userFrame[t]
         held == IF f.username \in DOMAIN userAllowedCredentialsCache
                   THEN <<userAllowedCredentialsCache[f.username]>> ELSE << >>
     IN /\ UpdUser(t, [f EXCEPT !.pc = "returned", !.value = f.fresh.val,
                                !.err = f.fresh.err,
                                !.wrote = <<UserEntryToWrite(f, held)>>])
        /\ userAllowedCredentialsCache' =
             MapPut(userAllowedCredentialsCache, f.username,
                    UserEntryToWrite(f, held))
  /\ UNCHANGED <<unsealVars, extraVars, hist, listRolesSemaphore, detached, metrics,
                 roleFrame, config, userInfo, accountRoleCache, now, idp,
                 cloud, last>>

\* A result that a failed worker left incomplete is returned without being
\* written to the map.
UA_Store_DropsPartial(t) ==
  /\ userFrame[t].pc = "store"
  /\ LET f == userFrame[t]
         held == IF f.username \in DOMAIN userAllowedCredentialsCache
                   THEN <<userAllowedCredentialsCache[f.username]>> ELSE << >>
         partial == \E w \in workers : w.call = f.call /\ w.failed
     IN IF f.fresh.err # NilErr
          THEN /\ UpdUser(t, IF f.ok
                               THEN [f EXCEPT !.pc = "returned",
                                      !.value = f.entry[1].PermittedAccounts]
                               ELSE [f EXCEPT !.pc = "returned",
                                      !.value = f.fresh.val,
                                      !.err = f.fresh.err])
               /\ UNCHANGED userAllowedCredentialsCache
          ELSE /\ UpdUser(t, [f EXCEPT !.pc = "returned",
                                       !.value = f.fresh.val,
                                       !.wrote = IF partial THEN @
                                                 ELSE <<UserEntryToWrite(f, held)>>])
               /\ userAllowedCredentialsCache' =
                    IF partial THEN userAllowedCredentialsCache
                    ELSE MapPut(userAllowedCredentialsCache, f.username,
                                UserEntryToWrite(f, held))
  /\ UNCHANGED <<unsealVars, extraVars, hist, listRolesSemaphore, detached, metrics,
                 roleFrame, config, userInfo, accountRoleCache, now, idp,
                 cloud, last>>

\* Lines 603-613 and 616-626: a failed refresh serves the expired copy, a
\* failure without entry returns the error, and a success is written back
\* whole under the mutex.
UA_Store(t) ==
  /\ userFrame[t].pc = "store"
  /\ LET f == userFrame[t]
         held == IF f.username \in DOMAIN userAllowedCredentialsCache
                   THEN <<userAllowedCredentialsCache[f.username]>> ELSE << >>
     IN IF f.fresh.err # NilErr
          THEN /\ UpdUser(t, IF f.ok
                               THEN [f EXCEPT !.pc = "returned",
                                      !.value = f.entry[1].PermittedAccounts]
                               ELSE [f EXCEPT !.pc = "returned",
                                      !.value = f.fresh.val,
                                      !.err = f.fresh.err])
               /\ UNCHANGED userAllowedCredentialsCache
          ELSE /\ UpdUser(t, [f EXCEPT !.pc = "returned",
                                       !.value = f.fresh.val,
                                       !.wrote = <<UserEntryToWrite(f, held)>>])
               /\ userAllowedCredentialsCache' =
                    MapPut(userAllowedCredentialsCache, f.username,
                           UserEntryToWrite(f, held))
  /\ UNCHANGED <<unsealVars, extraVars, hist, listRolesSemaphore, detached, metrics,
                 roleFrame, config, userInfo, accountRoleCache, now, idp,
                 cloud, last>>

\* The call returns to its caller.
UA_Return(t) ==
  /\ userFrame[t].pc = "returned"
  /\ UpdUser(t, IdleUserFrame)
  /\ UNCHANGED <<unsealVars, extraVars, hist, listRolesSemaphore, detached, metrics,
                 roleFrame, config, userInfo, userAllowedCredentialsCache,
                 accountRoleCache, now, idp, cloud, last>>

\* ------------------------------------- the reconfiguration: specification
MaxConfigCalls == 3

ConfigInit ==
  /\ UnsealedBroker
  /\ crashed = FALSE
  /\ frame = [t \in Threads |-> IdleFrame]
  /\ hist = InitHist
  /\ NewAuthzState
  /\ idp \in {i \in IdpStates : i.ok}
  /\ cloud = [a \in CloudNames |-> Healthy]

\* Requests that overlap reconfigurations, each taken step by step.
ConfigNext ==
  \/ \E t \in Threads, c \in {<<ConfigTwo>>, <<ConfigCased>>} :
       CanCall(MaxConfigCalls) /\ U_WriteUserInfo(t, c)
  \/ \E t \in Threads : U_WriteConfig(t)
  \/ \E t \in Threads, u \in Users : CanCall(MaxConfigCalls) /\ UA_Begin(t, u)
  \/ \E t \in Threads : UA_NilCheck(t)
  \/ \E t \in Threads : UA_GetGroups(t)
  \/ \E t \in Threads, started \in SUBSET GroupKeys : UA_Resolve(t, started)
  \/ \E t \in Threads : UA_Store(t)
  \/ \E t \in Threads : UA_Return(t)

ConfigSpec == ConfigInit /\ [][ConfigNext]_vars

\* ------------------------------------------- the cache races: specification
MaxRaceCalls == 3

\* Overlapping calls of getUserAllowedAccounts and of getAWSRolesForAccount
\* under one configuration, while the identity provider or the cloud changes.
RaceNext ==
  \/ CanCall(MaxRaceCalls) /\ config = << >> /\ UpdateConfiguration(<<ConfigTwo>>)
  \/ \E t \in Threads, u \in Users : CanCall(MaxRaceCalls) /\ UA_Begin(t, u)
  \/ \E t \in Threads : UA_NilCheck(t)
  \/ \E t \in Threads : UA_GetGroups(t)
  \/ \E t \in Threads, started \in SUBSET GroupKeys : UA_Resolve(t, started)
  \/ \E t \in Threads : UA_Store(t)
  \/ \E t \in Threads : UA_Return(t)
  \/ \E t \in Threads, a \in AccountArgs :
       CanCall(MaxRaceCalls) /\ RC_Begin(t, a)
  \/ \E t \in Threads : RC_Fetch(t)
  \/ \E t \in Threads : RC_Store(t)
  \/ \E t \in Threads : RC_Return(t)
  \/ IdpChange
  \/ CloudChange

RaceSpec == ConfigInit /\ [][RaceNext]_vars

\* ------------------------- getUserAllowedAccountsFromGroups, step by step
\* A worker is [call, key, accountName, allowedRoles, pc, report, failed]:
\* the goroutine of lines 554-572 that the call numbered call started for
\* one key of allowedRoles.  pc is "fetch" before line 556, "lock" before
\* line 569 and "done" once wg.Done has run; report is the account it
\* appends; failed, whether getAWSRolesForAccount returned it an error.
WorkersOf(c) == {w \in workers : w.call = c}
Alive(c) == {w \in WorkersOf(c) : w.pc # "done"}

\* Lines 498-543: the maps are built from b.config and the groups, and the
\* slice, the mutex and the wait group are declared.
Prepared(t, allowedRoles) ==
  /\ UpdUser(t, [userFrame[t] EXCEPT
                   !.pc = "loop", !.accounts = config,
                   !.call = Cardinality(DOMAIN permittedAccounts) + 1,
                   !.allowed = allowedRoles, !.keys = DOMAIN allowedRoles])
  /\ permittedAccounts' =
       MapPut(permittedAccounts, Cardinality(DOMAIN permittedAccounts) + 1, << >>)
W_Prepare(t) ==
  /\ userFrame[t].pc = "resolve"
  /\ IF \E i \in 1..Len(config[1].AWS.Account) :
          ~RegexCompiles(GroupList(config[1].AWS.Account)[i])
       THEN /\ UpdUser(t, [userFrame[t] EXCEPT
                             !.pc = "store", !.accounts = config,
                             !.fetches = @ + 1,
                             !.fresh = [val |-> << >>, err |-> "regexp error"]])
            /\ UNCHANGED permittedAccounts
       ELSE Prepared(t, AddExtraRoles(
                          AllowedFromGroups(GroupList(config[1].AWS.Account),
                                            userFrame[t].groups),
                          config[1].AWS.Account))
  /\ UNCHANGED <<unsealVars, server, listers, hist, authzVars, listRolesSemaphore, detached,
                 metrics, workers>>

\* Lines 544-553 and 572, one iteration of the loop over the map, which Go
\* visits in any order: a key without account ends the call with an error
\* at line 547, without the wait of line 574; the others start a worker.
W_Spawn(t, groupName) ==
  /\ userFrame[t].pc = "loop"
  /\ groupName \in userFrame[t].keys
  /\ LET f == userFrame[t]
         groupToAccountName == GroupToAccountName(f.accounts[1].AWS.Account)
     IN IF groupName \notin DOMAIN groupToAccountName
          THEN /\ UpdUser(t, [f EXCEPT
                                !.pc = "store", !.fetches = @ + 1,
                                !.fresh = [val |-> << >>,
                                           err |-> "Cannot map to accountname"]])
               /\ UNCHANGED workers
          ELSE /\ UpdUser(t, [f EXCEPT !.keys = @ \ {groupName}])
               /\ workers' = workers \cup
                    {[call |-> f.call, key |-> groupName,
                      accountName |-> groupToAccountName[groupName],
                      allowedRoles |-> f.allowed[groupName],
                      pc |-> "fetch", report |-> << >>, failed |-> FALSE]}
  /\ UNCHANGED <<unsealVars, server, listers, hist, authzVars, listRolesSemaphore, detached,
                 metrics, permittedAccounts>>

\* Lines 555-568 of one worker: the roles of its account, through the role
\* cache, and the account it is going to report, if any.
WorkerFetched(w, rolesForAccount, report) ==
  /\ accountRoleCache' = rolesForAccount.cache
  /\ hist' = [hist EXCEPT !.enumerated =
                 EnumeratedAfter(@, accountRoleCache, rolesForAccount.cache)]
  /\ workers' = (workers \ {w}) \cup
       {[w EXCEPT !.pc = IF report = << >> THEN "done" ELSE "lock",
                  !.report = report,
                  !.failed = rolesForAccount.err # NilErr]}
W_Fetch(w) ==
  /\ w \in workers
  /\ w.pc = "fetch"
  /\ WorkerFetched(w, getAWSRolesForAccount(w.accountName, accountRoleCache),
                   WorkerReport(config[1].AWS.Account, w.accountName,
                                getAWSRolesForAccount(w.accountName, accountRoleCache),
                                w.allowedRoles))
  /\ UNCHANGED <<unsealVars, server, listers, listRolesSemaphore, detached, metrics, userFrame,
                 permittedAccounts, config, userInfo,
                 userAllowedCredentialsCache, now, idp, cloud, last, roleFrame>>

\* Lines 569-571 with the deferred calls: the append under the mutex, then
\* wg.Done.
W_Append(w) ==
  /\ w \in workers
  /\ w.pc = "lock"
  /\ permittedAccounts' = [permittedAccounts EXCEPT ![w.call] = @ \o w.report]
  /\ workers' = (workers \ {w}) \cup {[w EXCEPT !.pc = "done"]}
  /\ UNCHANGED <<unsealVars, server, listers, hist, authzVars, listRolesSemaphore, detached,
                 metrics, userFrame>>

\* Lines 574-576: wg.Wait returns once every worker started has run
\* wg.Done; the slice is returned.
W_Wait(t) ==
  /\ userFrame[t].pc = "loop"
  /\ userFrame[t].keys = {}
  /\ Alive(userFrame[t].call) = {}
  /\ UpdUser(t, [userFrame[t] EXCEPT
                   !.pc = "store", !.fetches = @ + 1,
                   !.fresh = [val |-> permittedAccounts[userFrame[t].call],
                              err |-> NilErr]])
  /\ UNCHANGED <<unsealVars, server, listers, hist, authzVars, listRolesSemaphore, detached,
                 metrics, workers, permittedAccounts>>

\* ------------------------------------------- the workers: specification
MaxWorkerCalls == 3

WorkerConfigs == {<<ConfigTwo>>, <<ConfigPlain>>, <<ConfigGrouped>>}

WorkerInit ==
  /\ UnsealedBroker
  /\ crashed = FALSE
  /\ frame = [t \in Threads |-> IdleFrame]
  /\ hist = InitHist
  /\ NewAuthzState
  /\ idp \in {i \in IdpStates : i.ok}
  /\ cloud \in CloudStates

\* Calls of getUserAllowedAccounts under one configuration, the resolver
\* and its workers taken step by step.
WorkerNext ==
  \/ \E c \in WorkerConfigs :
       CanCall(MaxWorkerCalls) /\ config = << >> /\ UpdateConfiguration(c)
  \/ \E t \in Threads, u \in Users :
       CanCall(MaxWorkerCalls) /\ config # << >> /\ UA_Begin(t, u)
  \/ \E t \in Threads : UA_NilCheck(t)
  \/ \E t \in Threads : UA_GetGroups(t)
  \/ \E t \in Threads : W_Prepare(t)
  \/ \E t \in Threads, k \in GroupKeys : W_Spawn(t, k)
  \/ \E w \in workers : W_Fetch(w)
  \/ \E w \in workers : W_Append(w)
  \/ \E t \in Threads : W_Wait(t)
  \/ \E t \in Threads : UA_Store(t)
  \/ \E t \in Threads : UA_Return(t)

WorkerSpec == WorkerInit /\ [][WorkerNext]_vars

\* ------------------------------------ unsealing, nobody reading: specification
\* One call at a time, and no consumer of GetIsUnsealedChannel: what has
\* been sent stays in the buffer.
NoConsumerNext ==
  \/ \E t \in Threads, s \in Secrets :
       CanCall(MaxCalls) /\ OthersIdle(t) /\ PNUS_Begin(t, s)
  \/ \E t \in Threads : OthersIdle(t) /\ PNUS_Decode(t)
  \/ \E t \in Threads : CanCall(MaxCalls) /\ OthersIdle(t) /\ Load_Begin(t)
  \/ \E t \in Threads : OthersIdle(t) /\ Load_Check(t)
  \/ \E t \in Threads : OthersIdle(t) /\ LCB_Section(t)
  \/ \E t \in Threads : OthersIdle(t) /\ LCB_Check(t)
  \/ \E t \in Threads : OthersIdle(t) /\ FU_Provider(t)
  \/ \E t \in Threads : OthersIdle(t) /\ FU_Client(t)
  \/ \E t \in Threads : OthersIdle(t) /\ FU_Region(t)
  \/ \E t \in Threads : OthersIdle(t) /\ FU_Send(t)
  \/ \E t \in Threads : OthersIdle(t) /\ Return(t)
  \/ ChangeFile

NoConsumerSpec == Init /\ [][NoConsumerNext]_vars

\* ------------------------------------ requests one at a time: specification
MaxOmitCalls == 3

NoRequestRunning ==
  /\ \A t \in Threads : userFrame[t].pc = "idle"
  /\ \A w \in workers : w.pc = "done"

\* Calls of getUserAllowedAccounts one after the other, the resolver and
\* its workers taken step by step, while the clock advances and the cloud
\* changes between the calls.
OmitNext ==
  \/ \E c \in {<<ConfigTwo>>, <<ConfigPlain>>} :
       CanCall(MaxOmitCalls) /\ config = << >> /\ UpdateConfiguration(c)
  \/ \E t \in Threads, u \in Users :
       /\ CanCall(MaxOmitCalls) /\ config # << >> /\ NoRequestRunning
       /\ UA_Begin(t, u)
  \/ \E t \in Threads : UA_NilCheck(t)
  \/ \E t \in Threads : UA_GetGroups(t)
  \/ \E t \in Threads : W_Prepare(t)
  \/ \E t \in Threads, k \in GroupKeys : W_Spawn(t, k)
  \/ \E w \in workers : W_Fetch(w)
  \/ \E w \in workers : W_Append(w)
  \/ \E t \in Threads : W_Wait(t)
  \/ \E t \in Threads : UA_Store(t)
  \/ \E t \in Threads : UA_Return(t)
  \/ \E d \in TickSeconds : NoRequestRunning /\ Tick(d)
  \/ NoRequestRunning /\ CloudChange

OmitSpec == WorkerInit /\ [][OmitNext]_vars

\* --------------------------------------- reconfigurations: specification
MaxReconfCalls == 3

\* Whole calls of UpdateConfiguration and GetUserAllowedAccounts, one after
\* the other, over configurations that give a user different accounts,
\* while the clock advances.
ReconfNext ==
  \/ \E c \in ResolverConfigInputs :
       CanCall(MaxReconfCalls) /\ UpdateConfiguration(c)
  \/ \E u \in Users, started \in SUBSET GroupKeys :
       CanCall(MaxReconfCalls) /\ GetUserAllowedAccounts(u, started)
  \/ \E d \in TickSeconds : Tick(d)

ReconfSpec == ConfigInit /\ [][ReconfNext]_vars

\* ------------------------------------------------------ unsealing: claims
Pre(t) == frame[t].pre[1]
Returned(t, op) == frame[t].pc = "returned" /\ frame[t].op = op
NumProfiles(m) == Cardinality(DOMAIN m)
AcceptedNames(text) ==
  IF text.iniOK
    THEN {text.sections[i].name :
            i \in {j \in 1..Len(text.sections) : SectionAccepted(text.sections[j])}}
    ELSE {}

\* The broker as a call found it: Sealed is NeedsSecret with an armored
\* blob retained; Unsealed is the profile map filled.
WasSealed(t) ==
  /\ credentialsFilename # ""
  /\ NumProfiles(Pre(t).profileCredentials) = 0
  /\ Pre(t).rawCredentialsFile.kind = "pgp"
WasUnsealed(t) == NumProfiles(Pre(t).profileCredentials) > 0
\* The secret of the call decrypts the blob it found, to the end.
Decrypts(t) ==
  /\ Pre(t).rawCredentialsFile.armorOK
  /\ Pre(t).rawCredentialsFile.intact
  /\ frame[t].secret = Pre(t).rawCredentialsFile.pass
\* The call changed no Broker field and sent nothing.
NoSideEffects(t) ==
  /\ profileCredentials = Pre(t).profileCredentials
  /\ rawCredentialsFile = Pre(t).rawCredentialsFile
  /\ masterStsClient = Pre(t).masterStsClient
  /\ masterStsRegion = Pre(t).masterStsRegion
  /\ TotalSent = Pre(t).sent

\* C1: over any sequence of non-overlapping ProcessNewUnsealingSecret
\* calls, those calls send at most one value on the readiness channel.
C1_AtMostOneSend == hist.sent.pnus <= 1

\* A call that started after the one that sent has returned.
C1_Witness ==
  \E t \in Threads :
    /\ Returned(t, "pnus")
    /\ Pre(t).sent = 1
    /\ hist.sent.pnus = 1

\* C2: however ProcessNewUnsealingSecret calls overlap, they run
\* finishUnsealing at most once and send at most one value.
C2_OverlappingCallsFinishOnce ==
  hist.fuRuns.pnus <= 1 /\ hist.sent.pnus <= 1

\* C3: ProcessNewUnsealingSecret with the correct passphrase on a Sealed
\* broker whose plaintext holds a valid profile returns (true, nil) with the
\* profile map filled, the master STS client set and nil published.
C3_CorrectSecretUnsealsAndPublishes ==
  \A t \in Threads :
    ( /\ Returned(t, "pnus")
      /\ WasSealed(t)
      /\ Decrypts(t)
      /\ AcceptedNames(Pre(t).rawCredentialsFile.text) # {} )
    => /\ frame[t].ready /\ frame[t].err = NilErr
       /\ NumProfiles(profileCredentials) > 0
       /\ masterStsClient # << >>
       /\ TotalSent = Pre(t).sent + 1

\* C4: a wrong passphrase on a Sealed broker returns (false, err) and
\* changes nothing; the correct passphrase then still fills the profile map
\* and returns (true, nil), whatever number of wrong attempts came before.
C4_WrongSecretNoSideEffects ==
  \A t \in Threads :
    /\ ( /\ Returned(t, "pnus")
         /\ WasSealed(t)
         /\ Pre(t).rawCredentialsFile.armorOK
         /\ frame[t].secret # Pre(t).rawCredentialsFile.pass )
       => /\ ~frame[t].ready /\ frame[t].err # NilErr
          /\ NoSideEffects(t)
          /\ NumProfiles(profileCredentials) = 0
    /\ ( /\ Returned(t, "pnus")
         /\ hist.retWrong > 0
         /\ WasSealed(t)
         /\ Decrypts(t)
         /\ AcceptedNames(Pre(t).rawCredentialsFile.text) # {} )
       => /\ frame[t].ready /\ frame[t].err = NilErr
          /\ DOMAIN profileCredentials = AcceptedNames(Pre(t).rawCredentialsFile.text)

\* After a wrong attempt, the correct passphrase has unsealed.
C4_Witness ==
  \E t \in Threads :
    /\ Returned(t, "pnus")
    /\ hist.retWrong >= 1
    /\ WasSealed(t)
    /\ Decrypts(t)
    /\ frame[t].ready
    /\ NumProfiles(profileCredentials) > 0

\* C5: a ProcessNewUnsealingSecret call on an Unsealed broker returns
\* (true, nil) and changes nothing, with any secret; and a filled profile
\* map is never emptied again.
C5_UnsealedIsFinal ==
  /\ [](\A t \in Threads :
          (Returned(t, "pnus") /\ WasUnsealed(t))
          => (frame[t].ready /\ frame[t].err = NilErr /\ NoSideEffects(t)))
  /\ [][NumProfiles(profileCredentials) > 0
          => NumProfiles(profileCredentials') > 0]_vars

\* A call with the wrong secret has returned from an Unsealed broker whose
\* retained bytes are an armored blob.
C5_Witness ==
  \E t \in Threads :
    /\ Returned(t, "pnus")
    /\ WasUnsealed(t)
    /\ credentialsFilename # ""
    /\ Pre(t).rawCredentialsFile.kind = "pgp"
    /\ frame[t].secret # Pre(t).rawCredentialsFile.pass

\* C6: LoadCredentialsFile on a plaintext INI with a valid profile returns
\* nil with every accepted section in the profile map and a value sent on
\* the readiness channel.
C6_PlaintextLoadPublishes ==
  \A t \in Threads :
    ( /\ Returned(t, "load")
      /\ credentialsFilename # ""
      /\ frame[t].read.kind = "ini"
      /\ AcceptedNames(frame[t].read.text) # {}
      /\ frame[t].err = NilErr )
    => /\ AcceptedNames(frame[t].read.text) \subseteq DOMAIN profileCredentials
       /\ TotalSent = Pre(t).sent + 1

\* C7: LoadCredentialsFile on an armored file, or on a path that cannot be
\* read, returns nil, keeps what was read as the raw bytes, and changes
\* neither the profile map nor the master STS client nor the channel: a
\* broker in NeedsSecret stays there.
C7_ArmoredOrMissingDefers ==
  \A t \in Threads :
    ( /\ Returned(t, "load")
      /\ credentialsFilename # ""
      /\ frame[t].read.kind \in {"pgp", "none"} )
    => /\ frame[t].err = NilErr
       /\ rawCredentialsFile = frame[t].read
       /\ profileCredentials = Pre(t).profileCredentials
       /\ masterStsClient = Pre(t).masterStsClient
       /\ masterStsRegion = Pre(t).masterStsRegion
       /\ TotalSent = Pre(t).sent
       /\ NumProfiles(Pre(t).profileCredentials) = 0
            => (masterStsClient = << >> /\ TotalSent = 0)

\* An armored file has been loaded into a broker in NeedsSecret.
C7_WitnessArmored ==
  \E t \in Threads :
    /\ Returned(t, "load")
    /\ credentialsFilename # ""
    /\ frame[t].read.kind = "pgp"
    /\ NumProfiles(profileCredentials) = 0
    /\ rawCredentialsFile.kind = "pgp"

\* C8: when the secret decrypts the blob and the plaintext holds no valid
\* profile, the call returns (false, nil) and changes nothing; a later call
\* whose secret decrypts a blob with valid profiles fills the profile map
\* and returns (true, nil).
C8_EmptyPlaintextRetryable ==
  \A t \in Threads :
    /\ ( /\ Returned(t, "pnus")
         /\ WasSealed(t)
         /\ Decrypts(t)
         /\ AcceptedNames(Pre(t).rawCredentialsFile.text) = {} )
       => /\ ~frame[t].ready /\ frame[t].err = NilErr
          /\ NoSideEffects(t)
          /\ TotalSent = 0
    /\ ( /\ Returned(t, "pnus")
         /\ hist.retEmpty > 0
         /\ WasSealed(t)
         /\ Decrypts(t)
         /\ AcceptedNames(Pre(t).rawCredentialsFile.text) # {} )
       => /\ frame[t].ready /\ frame[t].err = NilErr
          /\ NumProfiles(profileCredentials) > 0

\* After a (false, nil), a call on a new blob has unsealed.
C8_Witness ==
  \E t \in Threads :
    /\ Returned(t, "pnus")
    /\ hist.retEmpty > 0
    /\ WasSealed(t)
    /\ Decrypts(t)
    /\ frame[t].ready
    /\ NumProfiles(profileCredentials) > 0

\* C9: over any sequence of LoadCredentialsFile and
\* ProcessNewUnsealingSecret calls, finishUnsealing runs at most once and
\* masterStsClient is assigned at most once.
C9_FinishUnsealingOnce == TotalFuRuns <= 1 /\ hist.clientAssigns <= 1

\* -------------------------------------------------- authorization: claims
\* r is in the role list of account a in the list val.
InRoleListOf(val, a, r) ==
  \E i \in 1..Len(val) :
    val[i].Name = a /\ r \in Range(val[i].PermittedRoleName)

\* C10 (as stated): for every user, account and role, against the same
\* caches and upstream, IsUserAllowedToAssumeRole returns true exactly when
\* the role is in the account's list in GetUserAllowedAccounts; when it is
\* not, the result is (false, nil), never an error.
C10_DeniedIsNeverAnError ==
  \A u \in Users, started \in SUBSET GroupKeys :
    LET g == getUserAllowedAccounts(u, started)
    IN \A a \in CloudNames, r \in RoleNames :
         LET i == isUserAllowedToAssumeRole(u, a, r, started)
         IN /\ i.ok <=> InRoleListOf(g.val, a, r)
            /\ ~InRoleListOf(g.val, a, r) => (~i.ok /\ i.err = NilErr)

\* C10 (amended): IsUserAllowedToAssumeRole returns true exactly when
\* GetUserAllowedAccounts returns the role in the account's list; it returns
\* the error of GetUserAllowedAccounts, so a role that is not in the list
\* gives (false, nil) when GetUserAllowedAccounts succeeds, and (false, err)
\* when it fails (no configuration, or a failure behind a cold cache).
C10_AllowedIffInRoleList ==
  \A u \in Users, started \in SUBSET GroupKeys :
    LET g == getUserAllowedAccounts(u, started)
    IN \A a \in CloudNames, r \in RoleNames :
         LET i == isUserAllowedToAssumeRole(u, a, r, started)
         IN /\ i.ok <=> (g.err = NilErr /\ InRoleListOf(g.val, a, r))
            /\ i.err = g.err
            /\ i.userCache = g.userCache /\ i.roleCache = g.roleCache

\* A call has just denied a role to a user who has permitted accounts.
C10_Witness ==
  /\ last.op = "IsUserAllowedToAssumeRole"
  /\ ~last.ok /\ last.err = NilErr
  /\ last.username \in DOMAIN userAllowedCredentialsCache
  /\ Len(userAllowedCredentialsCache[last.username].PermittedAccounts) > 0

\* -------------------------------------------------- the resolver: claims
ColdCaches ==
  DOMAIN userAllowedCredentialsCache = {} /\ DOMAIN accountRoleCache = {}
Configured == config # << >>
LiveRolesOf(account) == Range(cloud[account.Name].roles)
ListingWorks(account) ==
  getAWSRolesForAccountNonCached(account.Name).err = NilErr

\* The allowed set of an account: the suffixes of the user's groups that
\* name it (by its group name, which is its name when none is set) and its
\* extra roles.
AllowedSetOf(account, userGroups) ==
  Range(Captures(GroupNameOf(account), userGroups))
    \cup Range(account.ExtraUserRoles)
\* Its case-insensitive intersection with the live roles, in their casing.
LiveIntersection(account, userGroups) ==
  {l \in LiveRolesOf(account) :
     \E r \in AllowedSetOf(account, userGroups) : ToLower(l) = ToLower(r)}
EntriesFor(val, name) == {k \in 1..Len(val) : val[k].Name = name}

ExactlyTheIntersections(g, userGroups) ==
  /\ g.err = NilErr
  /\ \A i \in 1..Len(config[1].AWS.Account) :
       LET account == config[1].AWS.Account[i]
           inter == LiveIntersection(account, userGroups)
       IN /\ Cardinality(EntriesFor(g.val, account.Name)) =
               (IF inter = {} THEN 0 ELSE 1)
          /\ \A k \in EntriesFor(g.val, account.Name) :
               Range(g.val[k].PermittedRoleName) = inter
  /\ \A k \in 1..Len(g.val) :
       \E i \in 1..Len(config[1].AWS.Account) :
         config[1].AWS.Account[i].Name = g.val[k].Name

\* C11: on a cold cache, whenever the roles of every configured account can
\* be listed, GetUserAllowedAccounts returns without error exactly one
\* entry for each configured account whose allowed set meets its live roles
\* (case-insensitively), carrying exactly the live roles met, and nothing
\* for any other account or group.
C11_ColdCacheResultIsIntersection ==
  (/\ Configured /\ idp.ok /\ ColdCaches
   /\ \A i \in 1..Len(config[1].AWS.Account) :
        ListingWorks(config[1].AWS.Account[i]))
  => \A u \in Users, started \in SUBSET GroupKeys :
       ExactlyTheIntersections(getUserAllowedAccounts(u, started),
                               GetUserGroups(u).groups)

ExtraRolesGranted(g, userGroups) ==
  /\ g.err = NilErr
  /\ \A i \in 1..Len(config[1].AWS.Account) :
       LET account == config[1].AWS.Account[i]
       IN /\ ListingWorks(account) =>
               \A l \in LiveRolesOf(account) :
                 (\E r \in Range(account.ExtraUserRoles) : ToLower(l) = ToLower(r))
                 => \E k \in EntriesFor(g.val, account.Name) :
                      l \in Range(g.val[k].PermittedRoleName)
          /\ \A k \in EntriesFor(g.val, account.Name) :
               Range(g.val[k].PermittedRoleName)
                 \subseteq LiveIntersection(account, userGroups)

\* C12: with a configuration set and the identity provider answering, on a
\* cold cache, GetUserAllowedAccounts does not fail, every extra role of an
\* account that the account lists is granted in that account, and no
\* account is granted a role outside its own allowed set.
C12_ExtraRolesNeverFail ==
  (Configured /\ idp.ok /\ ColdCaches)
  => \A u \in Users, started \in SUBSET GroupKeys :
       ExtraRolesGranted(getUserAllowedAccounts(u, started),
                         GetUserGroups(u).groups)

HasNoGroups(u) == idp.groups[u] = << >>
NotCached(u) == u \notin DOMAIN userAllowedCredentialsCache
OnlyExtraRoles(val) ==
  \A k \in 1..Len(val) :
    \E i \in 1..Len(config[1].AWS.Account) :
      /\ config[1].AWS.Account[i].Name = val[k].Name
      /\ \A r \in Range(val[k].PermittedRoleName) :
           \E e \in Range(config[1].AWS.Account[i].ExtraUserRoles) :
             ToLower(r) = ToLower(e)

SortedNoDups(strs) ==
  \A i \in 1..(Len(strs) - 1) : StrLess(strs[i], strs[i + 1])
AllSortedNoDups(val) ==
  \A k \in 1..Len(val) : SortedNoDups(val[k].PermittedRoleName)

\* C14: every role list GetUserAllowedAccounts has returned, and every role
\* list in an entry of the user cache, is in strictly increasing
\* lexicographic order: sorted, with no role name twice.
C14_RoleListsSortedUnique ==
  /\ last.op = "GetUserAllowedAccounts" => AllSortedNoDups(last.val)
  /\ \A u \in DOMAIN userAllowedCredentialsCache :
       AllSortedNoDups(userAllowedCredentialsCache[u].PermittedAccounts)

\* The roles getAWSRolesForAccount gives for an account in this state.
RolesNow(account) == getAWSRolesForAccount(account.Name, accountRoleCache)
\* A worker of the call lists the account, and the listing fails.
WorkerKeys(userGroups, started) ==
  StartedKeys(AddExtraRoles(AllowedFromGroups(GroupList(config[1].AWS.Account),
                                              userGroups),
                            config[1].AWS.Account),
              config[1].AWS.Account, started)
ListingFailsFor(account, userGroups, started) ==
  /\ \E k \in WorkerKeys(userGroups, started) :
       GroupToAccountName(config[1].AWS.Account)[k] = account.Name
  /\ RolesNow(account).err # NilErr
ReportedFrom(val, account, roles, userGroups) ==
  LET inter == {l \in Range(roles) :
                  \E r \in AllowedSetOf(account, userGroups) :
                    ToLower(l) = ToLower(r)}
  IN /\ Cardinality(EntriesFor(val, account.Name)) =
          (IF inter = {} THEN 0 ELSE 1)
     /\ \A k \in EntriesFor(val, account.Name) :
          Range(val[k].PermittedRoleName) = inter
OmittedOthersReported(g, failed, userGroups) ==
  /\ g.err = NilErr
  /\ EntriesFor(g.val, failed.Name) = {}
  /\ \A i \in 1..Len(config[1].AWS.Account) :
       LET account == config[1].AWS.Account[i]
       IN RolesNow(account).err = NilErr
          => ReportedFrom(g.val, account, RolesNow(account).roles, userGroups)

\* C15: when a worker of GetUserAllowedAccounts cannot list the roles of an
\* account, the call returns no error, no entry for that account, and for
\* every account it can list the entry it returns when the failed account
\* is not there.
C15_ListingFailureOmitsAccount ==
  (Configured /\ idp.ok)
  => \A u \in Users, started \in SUBSET GroupKeys :
       NotCached(u)
       => \A i \in 1..Len(config[1].AWS.Account) :
            ListingFailsFor(config[1].AWS.Account[i],
                            GetUserGroups(u).groups, started)
            => OmittedOthersReported(getUserAllowedAccounts(u, started),
                                     config[1].AWS.Account[i],
                                     GetUserGroups(u).groups)

\* ------------------------------------------------------ the caches: claims
RoleReturned(t) == roleFrame[t].pc = "returned"
\* The entry the call read had not expired when the call began.
ReadFresh(t) ==
  roleFrame[t].ok /\ roleFrame[t].entry.Expiration > roleFrame[t].t0
UserEntryFresh(u) ==
  /\ u \in DOMAIN userAllowedCredentialsCache
  /\ userAllowedCredentialsCache[u].Expiration > now
ServedUserEntry(u, g) ==
  /\ g.val = userAllowedCredentialsCache[u].PermittedAccounts
  /\ g.err = NilErr
  /\ g.userCache = userAllowedCredentialsCache
  /\ g.roleCache = accountRoleCache

ReadRecentlyBad(t) ==
  /\ roleFrame[t].ok
  /\ roleFrame[t].entry.Expiration <= roleFrame[t].t0
  /\ roleFrame[t].entry.LastBadTime # << >>
  /\ roleFrame[t].t0 - roleFrame[t].entry.LastBadTime[1] < 15

\* C17: a getAWSRolesForAccount call that read an expired entry whose
\* LastBadTime was less than 15 s old returns the roles of the entry with
\* no error and without a fetch, and leaves the entry with LastBadTime set
\* to the time of the call.
C17_RecentlyBadServesStaleAndBumps ==
  \A t \in Threads :
    (RoleReturned(t) /\ ReadRecentlyBad(t)) =>
      LET f == roleFrame[t]
      IN /\ f.roles = f.entry.Roles /\ f.err = NilErr
         /\ f.fetches = 0
         /\ accountRoleCache[f.account].LastBadTime = <<f.t0>>

\* The entry the call read had expired and was outside the 15 s window.
ReadExpiredOutsideWindow(t) ==
  /\ roleFrame[t].ok
  /\ roleFrame[t].entry.Expiration <= roleFrame[t].t0
  /\ ~ReadRecentlyBad(t)
\* The call returned the roles of an expired entry.
ServedExpired(t) ==
  /\ roleFrame[t].ok
  /\ roleFrame[t].entry.Expiration <= roleFrame[t].t0
  /\ roleFrame[t].fetches = 0 \/ roleFrame[t].value.err # NilErr

\* C18: a getAWSRolesForAccount call that read an expired entry outside
\* the 15 s window has fetched exactly once; when the fetch failed it
\* returns the roles of the entry with no error and has set LastBadTime to
\* the time of the write; and whenever a call has returned the roles of an
\* expired entry, the entry's LastBadTime is less than 15 s before.
C18_ExpiredFetchesOnceAndStaleIsBounded ==
  \A t \in Threads :
    RoleReturned(t) =>
      LET f == roleFrame[t]
      IN /\ ReadExpiredOutsideWindow(t) =>
              /\ f.fetches = 1
              /\ f.value.err # NilErr =>
                   /\ f.roles = f.entry.Roles /\ f.err = NilErr
                   /\ accountRoleCache[f.account].LastBadTime = <<f.t1>>
         /\ ServedExpired(t) =>
              /\ f.roles = f.entry.Roles /\ f.err = NilErr
              /\ accountRoleCache[f.account].LastBadTime # << >>
              /\ f.t1 - accountRoleCache[f.account].LastBadTime[1] < 15

C18_Witness ==
  \E t \in Threads :
    /\ RoleReturned(t) /\ ReadExpiredOutsideWindow(t)
    /\ roleFrame[t].fetches = 1 /\ roleFrame[t].value.err # NilErr
    /\ roleFrame[t].roles # << >> /\ roleFrame[t].roles = roleFrame[t].entry.Roles
    /\ roleFrame[t].entry.LastBadTime # << >>
    /\ accountRoleCache[roleFrame[t].account].LastBadTime = <<now>>

\* Thread t takes the step that writes the cache after its fetch failed on
\* an entry it had read.
StaleServeWrite(t) ==
  /\ roleFrame[t].pc = "store" /\ roleFrame'[t].pc = "returned"
  /\ roleFrame[t].ok /\ roleFrame[t].value.err # NilErr
SameButLastBadTime(before, after) ==
  /\ DOMAIN after = DOMAIN before
  /\ \A a \in DOMAIN before :
       /\ after[a].Roles = before[a].Roles
       /\ after[a].Expiration = before[a].Expiration

\* C19: in every interleaving of getAWSRolesForAccount calls, the write of
\* a call that serves stale after its fetch failed leaves every entry of
\* the cache with the roles and the expiry it had just before the write;
\* only LastBadTime may differ.
C19_StaleServeOnlyBumpsLastBad ==
  [][\A t \in Threads :
       StaleServeWrite(t) => SameButLastBadTime(accountRoleCache, accountRoleCache')]_vars

UserEntryExpired(u) ==
  /\ u \in DOMAIN userAllowedCredentialsCache
  /\ userAllowedCredentialsCache[u].Expiration <= now
ServedStaleUserEntry(u, g) ==
  /\ g.val = userAllowedCredentialsCache[u].PermittedAccounts
  /\ g.err = NilErr
  /\ g.userCache = userAllowedCredentialsCache

\* C20: for a user whose cache entry has expired, however long ago,
\* whenever getUserAllowedAccountsNonCached fails, getUserAllowedAccounts
\* returns the permitted accounts of the entry with no error and leaves the
\* user cache as it was (the entry still expired, so that the next call
\* refreshes again).
C20_RefreshFailureServesStale ==
  \A u \in Users, started \in SUBSET GroupKeys :
    (/\ UserEntryExpired(u)
     /\ getUserAllowedAccountsNonCached(u, started).err # NilErr)
    => ServedStaleUserEntry(u, getUserAllowedAccounts(u, started))

C20_Witness ==
  \E u \in Users :
    /\ last.op = "GetUserAllowedAccounts" /\ last.username = u
    /\ UserEntryExpired(u)
    /\ getUserAllowedAccountsNonCached(u, {}).err # NilErr
    /\ last.err = NilErr
    /\ last.val = userAllowedCredentialsCache[u].PermittedAccounts
    /\ last.val # << >>
    /\ hist.calls = MaxAuthzCalls

\* ------------------------------------------- reported roles: claims
\* Thread t takes the step in which its call gets its result.
RoleCallReports(t) ==
  roleFrame[t].pc # "returned" /\ roleFrame'[t].pc = "returned"

\* C21: in every interleaving, the roles a getAWSRolesForAccount call
\* reports for an account, from the cache or from its own fetch, are among
\* the roles that the most recent successful enumeration of the account
\* returned.
C21_ReportedRolesAreLastEnumeration ==
  [][\A t \in Threads :
       (RoleCallReports(t) /\ roleFrame'[t].err = NilErr)
       => /\ roleFrame'[t].account \in DOMAIN hist'.enumerated
          /\ Range(roleFrame'[t].roles)
               \subseteq Range(hist'.enumerated[roleFrame'[t].account])]_vars

\* ---------------------------------------------- role enumeration: claims
\* C22: at every instant the paginations running against IAM, those whose
\* caller has returned on the watchdog included, are at most
\* maxRoleRequestsInFlight.
C22_AtMostTenInFlight == InFlight <= maxRoleRequestsInFlight

\* The permits held are the callers waiting in the select of line 375.
SemaphoreCountsWaitingCallers ==
  /\ listRolesSemaphore = Cardinality({t \in Threads : roleFrame[t].pc = "select"})
  /\ listRolesSemaphore <= maxRoleRequestsInFlight

TimeoutErr == "AWS Get roles had a timeout"
Sorted(strs) == \A i \in 1..(Len(strs) - 1) : ~StrLess(strs[i + 1], strs[i])

\* Thread t leaves the select of line 375 in this step.
LeavesSelect(t) == roleFrame[t].pc = "select" /\ roleFrame'[t].pc # "select"

\* What the caller of a timed-out enumeration gets: the fallback of line 418
\* when the master was listing, else the timeout error and no roles.
GotTimeout(t) ==
  \/ roleFrame[t].via = "master" /\ roleFrame'[t].pc = "fallback"
  \/ /\ roleFrame[t].via = "profile"
     /\ roleFrame'[t].pc = "store"
     /\ roleFrame'[t].value = [roles |-> << >>, err |-> TimeoutErr]

\* C23: an enumeration whose pagination ends without error before the
\* watchdog's 10 s returns the account's roles sorted; one whose pagination
\* takes longer returns the timeout error and no roles to its caller,
\* raises no success counter, leaves the role cache alone and leaves its
\* pagination running; and a call that ends with such an error on a key
\* without entry returns the error and writes nothing.
C23_WatchdogSeparatesFastFromSlow ==
  [][\A t \in Threads :
       /\ (LeavesSelect(t) /\ roleFrame[t].secs < getAWSRolesTimeout
                           /\ roleFrame[t].pageErr = NilErr)
          => /\ roleFrame'[t].pc = "store"
             /\ roleFrame'[t].value.err = NilErr
             /\ Range(roleFrame'[t].value.roles)
                  = Range(cloud[roleFrame[t].account].roles)
             /\ Sorted(roleFrame'[t].value.roles)
             /\ detached' = detached
       /\ (LeavesSelect(t) /\ roleFrame[t].secs > getAWSRolesTimeout)
          => /\ GotTimeout(t)
             /\ metrics'.listSuccess = metrics.listSuccess
             /\ accountRoleCache' = accountRoleCache
             /\ detached' = detached + 1
             /\ listRolesSemaphore' = listRolesSemaphore - 1
       /\ (/\ roleFrame[t].pc = "store"
           /\ roleFrame[t].value.err = TimeoutErr
           /\ ~roleFrame[t].ok
           /\ roleFrame'[t].pc = "returned")
          => /\ roleFrame'[t].err = TimeoutErr
             /\ roleFrame'[t].roles = << >>
             /\ accountRoleCache' = accountRoleCache]_vars

\* A call has returned the watchdog's error while its pagination runs on,
\* with no success counted and no entry for its account.
C23_Witness ==
  \E t \in Threads :
    /\ roleFrame[t].pc = "returned"
    /\ roleFrame[t].err = TimeoutErr
    /\ detached > 0
    /\ metrics.listSuccess[roleFrame[t].account] = 0
    /\ metrics.listAttempt[roleFrame[t].account] > 0
    /\ roleFrame[t].account \notin DOMAIN accountRoleCache

\* ------------------------------------------------------ the minter: claims
MintCalls == {"generateTokenCredentials", "getConsoleURLForAccountRole"}

\* The master profile was tried first, and the profile named after the
\* account next and only because the master attempt had failed.
MasterThenAccountProfile(call) ==
  LET tried == call.val.tried
  IN /\ Len(tried) \in {1, 2}
     /\ tried[1].profile = masterAWSProfileName
     /\ Len(tried) = 1 <=> tried[1].err = NilErr
     /\ Len(tried) = 2 => tried[2].profile = call.val.account
     /\ Cardinality({i \in 1..Len(tried) : tried[i].called}) <= 2

BothFailed(call) ==
  Len(call.val.tried) = 2 /\ call.val.tried[2].err # NilErr

FederationFailed(call) ==
  /\ call.op = "getConsoleURLForAccountRole"
  /\ call.err \in {FederationErr(x) : x \in FederationAnswers \ {"token"}}

\* C24 as stated: a minting call tries the master profile first and the
\* account's profile only after a master failure, makes at most two
\* attempts, and fails only when both attempts failed.
C24_MintFailsOnlyWhenBothFail ==
  last.op \in MintCalls
    => /\ MasterThenAccountProfile(last)
       /\ last.err # NilErr => BothFailed(last)

\* C24, amended: as above, except that GenerateTokenCredentials fails
\* exactly when both attempts failed, while GetConsoleURLForAccountRole
\* fails when both attempts failed or when the federation endpoint, asked
\* after a successful attempt, did not give a sign-in token.
C24_MasterFirstThenAccountProfile ==
  last.op \in MintCalls
    => /\ MasterThenAccountProfile(last)
       /\ last.op = "generateTokenCredentials"
            => (last.err # NilErr <=> BothFailed(last))
       /\ last.op = "getConsoleURLForAccountRole"
            => /\ BothFailed(last) => last.err = last.val.tried[2].err
               /\ last.err # NilErr
                    <=> (BothFailed(last) \/ FederationFailed(last))
       /\ last.err = NilErr <=> last.val.out # << >>

\* A call has succeeded with the account's profile after the master failed.
C24_Witness ==
  /\ last.op \in MintCalls
  /\ last.err = NilErr
  /\ Len(last.val.tried) = 2
  /\ last.val.tried[1].called
  /\ last.val.tried[2].called

\* ---------------------------------------------------- the counters: claims
SuccessAtMostAttempt ==
  /\ \A a \in CloudNames : metrics.listSuccess[a] <= metrics.listAttempt[a]
  /\ \A l \in CloudNames \X MetricRoles :
       metrics.assumeSuccess[l] <= metrics.assumeAttempt[l]

\* This step is a whole minting call.
MintStep ==
  /\ hist'.calls = hist.calls + 1
  /\ roleFrame' = roleFrame
  /\ last'.op \in MintCalls

\* The calls of AssumeRole a minting call made, and those that returned no
\* error.
CalledIn(call) == {i \in 1..Len(call.val.tried) : call.val.tried[i].called}
GrantedIn(call) == {i \in CalledIn(call) : call.val.tried[i].err = NilErr}

\* The counters of one label set are raised by n, the others kept.
RaisedBy(old, new, label, n) == new = [old EXCEPT ![label] = @ + n]

\* C25: the success counters never exceed the attempt counters of the same
\* labels; a pagination raises its attempt counter when it starts and its
\* success counter only when its caller receives nil from it; a minting
\* call raises the attempt counter of (account, role) once for each
\* AssumeRole call it makes and the success counter once for each that
\* returned no error, so that a GenerateTokenCredentials that succeeds with
\* the master raises both by exactly 1.
C25_SuccessCountedOnlyAfterAttempt ==
  /\ []SuccessAtMostAttempt
  /\ [][/\ \A t \in Threads :
             (roleFrame[t].pc = "acquire" /\ roleFrame'[t].pc = "select")
             => /\ RaisedBy(metrics.listAttempt, metrics'.listAttempt,
                            roleFrame[t].account, 1)
                /\ metrics'.listSuccess = metrics.listSuccess
        /\ metrics'.listSuccess # metrics.listSuccess
             => \E t \in Threads :
                  /\ LeavesSelect(t)
                  /\ roleFrame[t].page = "sent"
                  /\ roleFrame[t].pageErr = NilErr
                  /\ RaisedBy(metrics.listSuccess, metrics'.listSuccess,
                              roleFrame[t].account, 1)
                  /\ metrics'.listAttempt = metrics.listAttempt
        /\ MintStep
             => LET label == <<last'.val.account, last'.val.role>>
                IN /\ RaisedBy(metrics.assumeAttempt, metrics'.assumeAttempt,
                               label, Cardinality(CalledIn(last')))
                   /\ RaisedBy(metrics.assumeSuccess, metrics'.assumeSuccess,
                               label, Cardinality(GrantedIn(last')))
                   /\ (/\ last'.op = "generateTokenCredentials"
                       /\ last'.err = NilErr
                       /\ Len(last'.val.tried) = 1)
                      => /\ RaisedBy(metrics.assumeAttempt,
                                     metrics'.assumeAttempt, label, 1)
                         /\ RaisedBy(metrics.assumeSuccess,
                                     metrics'.assumeSuccess, label, 1)]_vars

\* GenerateTokenCredentials has succeeded with the master, after a failed
\* attempt and a pagination that was attempted without success.
C25_Witness ==
  /\ last.op = "generateTokenCredentials"
  /\ last.err = NilErr
  /\ Len(last.val.tried) = 1
  /\ metrics.assumeSuccess[<<last.val.account, last.val.role>>] = 1
  /\ \E l \in CloudNames \X MetricRoles :
       metrics.assumeSuccess[l] < metrics.assumeAttempt[l]
  /\ \E a \in CloudNames : metrics.listSuccess[a] < metrics.listAttempt[a]

\* ---------------------------------------------- the configuration: claims
\* This step is a whole UpdateConfiguration call.
ConfigurationStep ==
  /\ hist'.calls = hist.calls + 1
  /\ roleFrame' = roleFrame
  /\ userFrame' = userFrame
  /\ last'.op = "UpdateConfiguration"

Refused(c) == c = << >> \/ ~RegexCompiles(c[1].AWS.GroupPrefix)

\* C26: UpdateConfiguration called with nil or with a group prefix that is
\* not a regular expression returns an error and leaves the configuration
\* and the user-groups getter as they were; any other call returns no
\* error and installs both.
C26_RefusedConfigurationChangesNothing ==
  [][ConfigurationStep
       => /\ Refused(last'.val) <=> last'.err # NilErr
          /\ Refused(last'.val) => config' = config /\ userInfo' = userInfo
          /\ ~Refused(last'.val)
               => /\ config' = last'.val
                  /\ userInfo' = <<[prefix |-> last'.val[1].AWS.GroupPrefix]>>]_vars

\* A prefix that does not compile has been refused while a configuration
\* was active, and that configuration is still the active one.
C26_Witness ==
  /\ last.op = "UpdateConfiguration"
  /\ last.err = "regexp error"
  /\ config # << >>
  /\ config # last.val
  /\ userInfo = <<[prefix |-> config[1].AWS.GroupPrefix]>>

\* -------------------------------------------- the reconfiguration: claims
\* C27: in every interleaving, a getUserAllowedAccounts call that gets to
\* the resolver has read a groups getter and an account configuration that
\* one UpdateConfiguration call installed, and has seen one configuration
\* from its nil test to the resolver.
C27_RequestSeesOneConfiguration ==
  \A t \in Threads :
    userFrame[t].accounts # << >>
      => /\ userFrame[t].getter[1].prefix
              = userFrame[t].accounts[1].AWS.GroupPrefix
         /\ userFrame[t].seen = userFrame[t].accounts

\* What the broker's credentials, its configuration and the cloud allow,
\* whoever asks: some profile the broker holds can assume the role.
SomeProfileCanAssume(accountName, roleName) ==
  /\ IsConfiguredAccount(accountName)
  /\ roleName \in Range(cloud[accountName].roles)
  /\ \/ masterStsClient # << >> /\ cloud[accountName].assume
     \/ accountName \in DOMAIN profileCredentials

\* C28: a minting call leaves both caches as they are, and its outcome is
\* decided by the broker's credentials, the configuration and the cloud
\* alone: GenerateTokenCredentials succeeds exactly when some profile of the
\* broker can assume the role, whatever the user's groups and whatever the
\* caches hold, and GetConsoleURLForAccountRole succeeds only then and fails
\* otherwise only on the federation endpoint's failure.
C28_MinterChecksNoPermission ==
  [][MintStep
       => /\ userAllowedCredentialsCache' = userAllowedCredentialsCache
          /\ accountRoleCache' = accountRoleCache
          /\ last'.val.tried # << >>
          /\ last'.op = "generateTokenCredentials"
               => (last'.err = NilErr
                     <=> SomeProfileCanAssume(last'.val.account, last'.val.role))
          /\ last'.op = "getConsoleURLForAccountRole"
               => /\ last'.err = NilErr
                       => SomeProfileCanAssume(last'.val.account, last'.val.role)
                  /\ (last'.err # NilErr
                        /\ SomeProfileCanAssume(last'.val.account, last'.val.role))
                       => FederationFailed(last')]_vars

\* Credentials have been minted for a user whose cached permissions do not
\* include the role.
C28_Witness ==
  /\ last.op = "generateTokenCredentials"
  /\ last.err = NilErr
  /\ last.username \in DOMAIN userAllowedCredentialsCache
  /\ ~RoleFound(userAllowedCredentialsCache[last.username].PermittedAccounts,
                last.val.account, last.val.role)
  /\ DOMAIN accountRoleCache # {}

\* ------------------------------------------------- the cache races: claims
\* The entry a getAWSRolesForAccount call with frame f writes: the copy it
\* read, changed by what its own fetch returned.
OwnRoleEntry(f) ==
  [Roles |-> IF f.value.err = NilErr THEN f.value.roles ELSE f.entry.Roles,
   Expiration |-> IF f.value.err = NilErr THEN now + roleCacheDuration
                  ELSE f.entry.Expiration,
   LastBadTime |-> IF f.value.err = NilErr THEN f.entry.LastBadTime
                   ELSE <<now>>]

\* The entry a getUserAllowedAccounts call with frame f writes.
OwnUserEntry(f) ==
  [PermittedAccounts |-> f.fresh.val, Expiration |-> now + cacheDuration]

RoleStoreStep(t) == roleFrame[t].pc = "store" /\ roleFrame'[t].pc = "returned"
UserStoreStep(t) == userFrame[t].pc = "store" /\ userFrame'[t].pc = "returned"

\* C29: a call that writes a cache writes under its key an entry made of
\* its own read and its own fetch alone, whatever another call has written
\* there since the read, and leaves the other keys alone; so after two
\* overlapping calls that both fetched, the cache holds what the last
\* writer wrote, whole.
C29_LastWriterWinsWhole ==
  [][/\ \A t \in Threads :
          RoleStoreStep(t)
            => \/ accountRoleCache' = accountRoleCache
               \/ accountRoleCache' =
                    MapPut(accountRoleCache, roleFrame[t].account,
                           OwnRoleEntry(roleFrame[t]))
     /\ \A t \in Threads :
          UserStoreStep(t)
            => \/ userAllowedCredentialsCache' = userAllowedCredentialsCache
               \/ userAllowedCredentialsCache' =
                    MapPut(userAllowedCredentialsCache, userFrame[t].username,
                           OwnUserEntry(userFrame[t]))]_vars

\* Two overlapping calls for one user have both missed and both fetched,
\* with different results; both have written, and the map holds one of the
\* two results.
UserRaceSeen ==
  \E t, u \in Threads :
    /\ t # u
    /\ userFrame[t].pc = "returned" /\ userFrame[u].pc = "returned"
    /\ userFrame[t].username = userFrame[u].username
    /\ userFrame[t].fetches = 1 /\ userFrame[u].fetches = 1
    /\ userFrame[t].wrote # << >> /\ userFrame[u].wrote # << >>
    /\ userFrame[t].wrote # userFrame[u].wrote
    /\ userAllowedCredentialsCache[userFrame[t].username] = userFrame[t].wrote[1]

\* The same for two overlapping calls of getAWSRolesForAccount.
RoleRaceSeen ==
  \E t, u \in Threads :
    /\ t # u
    /\ roleFrame[t].pc = "returned" /\ roleFrame[u].pc = "returned"
    /\ roleFrame[t].account = roleFrame[u].account
    /\ roleFrame[t].fetches = 1 /\ roleFrame[u].fetches = 1
    /\ roleFrame[t].value.err = NilErr /\ roleFrame[u].value.err = NilErr
    /\ roleFrame[t].value.roles # roleFrame[u].value.roles
    /\ accountRoleCache[roleFrame[t].account].Roles = roleFrame[t].value.roles

C29_Witness == UserRaceSeen

\* A call that found no entry under its key and whose fetch failed.
RoleAbsentAndFailed(f) == ~f.ok /\ f.value.err # NilErr
UserAbsentAndFailed(f) == ~f.ok /\ f.fresh.err # NilErr

\* C30: a getAWSRolesForAccount or getUserAllowedAccounts call that finds
\* no entry under its key and whose fetch fails returns the error of the
\* fetch and writes nothing; a key enters the user cache only by the write
\* of a call whose fetch succeeded, and the role cache only once the
\* account has been enumerated with success.
C30_AbsentAndFailedReturnsError ==
  [][/\ \A t \in Threads :
          (RoleStoreStep(t) /\ RoleAbsentAndFailed(roleFrame[t]))
            => /\ roleFrame'[t].err = roleFrame[t].value.err
               /\ roleFrame'[t].roles = << >>
               /\ accountRoleCache' = accountRoleCache
     /\ \A t \in Threads :
          (UserStoreStep(t) /\ UserAbsentAndFailed(userFrame[t]))
            => /\ userFrame'[t].err = userFrame[t].fresh.err
               /\ userFrame'[t].value = << >>
               /\ userAllowedCredentialsCache' = userAllowedCredentialsCache
     /\ \A u \in DOMAIN userAllowedCredentialsCache' :
          u \notin DOMAIN userAllowedCredentialsCache
            => \E t \in Threads :
                 /\ UserStoreStep(t)
                 /\ userFrame[t].username = u
                 /\ userFrame[t].fresh.err = NilErr
     /\ \A a \in DOMAIN accountRoleCache' :
          a \notin DOMAIN accountRoleCache
            => a \in DOMAIN hist'.enumerated]_vars

\* Both kinds of call have returned the error of a failed fetch on a key
\* without entry, and neither key has an entry.
C30_Witness ==
  \E t, u \in Threads :
    /\ userFrame[t].pc = "returned"
    /\ UserAbsentAndFailed(userFrame[t])
    /\ userFrame[t].err # NilErr
    /\ userFrame[t].username \notin DOMAIN userAllowedCredentialsCache
    /\ roleFrame[u].pc = "returned"
    /\ RoleAbsentAndFailed(roleFrame[u])
    /\ roleFrame[u].err # NilErr
    /\ roleFrame[u].account \notin DOMAIN accountRoleCache

\* ------------------------------------------------------ the workers: claims
CallHasReturned(c) ==
  ~\E t \in Threads : userFrame[t].call = c /\ userFrame[t].pc \in {"loop", "store"}
Reports(c) == {w.report[1] : w \in {v \in WorkersOf(c) : v.report # << >>}}

\* Every worker of a call that has left getUserAllowedAccountsFromGroups
\* has run wg.Done.
WorkersJoined ==
  \A c \in DOMAIN permittedAccounts : CallHasReturned(c) => Alive(c) = {}

\* A call that returns the slice returns one entry per worker that had an
\* account to report, and no other entry.
OneEntryPerSurvivor ==
  \A t \in Threads :
    (userFrame[t].pc = "returned" /\ userFrame[t].call # 0
       /\ userFrame[t].fresh.err = NilErr)
      => /\ Range(userFrame[t].value) = Reports(userFrame[t].call)
         /\ Len(userFrame[t].value) = Cardinality(Reports(userFrame[t].call))

\* The slice of a call that has returned is not appended to.
NoAppendAfterReturn ==
  \A c \in DOMAIN permittedAccounts :
    CallHasReturned(c) => permittedAccounts'[c] = permittedAccounts[c]

\* C31: within one getUserAllowedAccounts call every per-account worker has
\* finished before the call returns, and the returned slice holds exactly
\* one entry per surviving account: none lost, duplicated, or appended
\* after the return.
C31_WorkersJoinBeforeReturn ==
  /\ []WorkersJoined
  /\ []OneEntryPerSurvivor
  /\ [][NoAppendAfterReturn]_vars

\* ------------------------------------------------ loading twice: claims
\* Lines 212-228 as one function: the profile map after the loop over the
\* sections, from the map m.
RECURSIVE ProfilesAfter(_, _)
ProfilesAfter(sections, m) ==
  IF Len(sections) = 0 THEN m
  ELSE LET n == Len(sections)
           before == ProfilesAfter(SubSeq(sections, 1, n - 1), m)
       IN IF SectionAccepted(sections[n])
            THEN MapPut(before, sections[n].name, ProfileEntry(sections[n]))
            ELSE before

NoAcceptedSection(text) ==
  \A i \in 1..Len(text.sections) : ~SectionAccepted(text.sections[i])
PlainTexts == {TextBoth, TextOther, TextShort, TextEmpty}

\* The thread has run the loop to its end.
LoopDone(t) ==
  At(t, "lcb_section") /\ frame[t].idx > Len(frame[t].text.sections)

\* A call whose bytes hold no accepted section leaves the loop with
\* "nothing loaded" (which processNewUnsealingSecret reports as (false,
\* nil)) and does not enter finishUnsealing.
FailsWithNothingLoaded ==
  \A t \in Threads :
    (LoopDone(t) /\ NoAcceptedSection(frame[t].text) /\ frame'[t] # frame[t])
      => /\ frame'[t].pc = "returned"
         /\ ~frame'[t].ready
         /\ frame[t].op = "load" => frame'[t].err = "nothing loaded"
         /\ hist'.fuRuns = hist.fuRuns

\* The map a call has when its loop ends is the map it found with the
\* accepted sections put in, and putting them in again changes nothing.
LoadingTwiceIsLoadingOnce ==
  /\ \A t \in Threads :
       LoopDone(t) =>
         profileCredentials =
           ProfilesAfter(frame[t].text.sections, Pre(t).profileCredentials)
  /\ \A text \in PlainTexts :
       ProfilesAfter(text.sections, ProfilesAfter(text.sections, profileCredentials))
         = ProfilesAfter(text.sections, profileCredentials)

\* C32: loadCredentialsFrombytes fails with "nothing loaded" and does not
\* finish unsealing whenever its bytes contain no accepted section,
\* whatever earlier loads have put in the profile map; and loading the same
\* plaintext twice yields the same profile map.
C32_NothingLoadedWhateverTheMap ==
  /\ [][FailsWithNothingLoaded]_vars
  /\ []LoadingTwiceIsLoadingOnce

\* ------------------------------------------- minting while sealed: claims
NoClientFor(accountName) ==
  masterStsClient = << >> /\ accountName \notin DOMAIN profileCredentials

\* C33: while the broker has no master STS client and no profile named
\* after the account, GenerateTokenCredentials and
\* GetConsoleURLForAccountRole return an error without calling AssumeRole
\* (the attempt counters are unchanged) and without writing to the audit
\* log.
C33_SealedMinterFailsQuietly ==
  [][(MintStep /\ NoClientFor(last'.val.account))
       => /\ last'.err # NilErr
          /\ CalledIn(last') = {}
          /\ metrics'.assumeAttempt = metrics.assumeAttempt
          /\ metrics'.assumeSuccess = metrics.assumeSuccess
          /\ hist'.audit = hist.audit]_vars

\* A console URL has been asked of the sealed broker for a configured
\* account: both profiles were refused before any call of AssumeRole.
C33_Witness ==
  /\ last.op = "getConsoleURLForAccountRole"
  /\ NoClientFor(last.val.account)
  /\ config # << >>
  /\ IsConfiguredAccount(last.val.account)
  /\ Len(last.val.tried) = 2
  /\ last.val.tried[1].err = "no master STS client"
  /\ last.val.tried[2].err = "invalid profileName"
  /\ hist.audit = 0

\* ------------------------------------------------ the sends: claims
\* C34: for any sequence of LoadCredentialsFile and
\* ProcessNewUnsealingSecret calls, every send of finishUnsealing completes
\* even when nobody reads the channel: a call that has reached the send of
\* line 147 finds room in the buffer, so that each call returns.
C34_SendsNeverBlock ==
  \A t \in Threads :
    At(t, "fu_send") => Len(isUnsealedChannel) < isUnsealedChannelCap

\* ------------------------------------------------------ the permits: claims
\* The permits held are those of the callers between Acquire and their
\* return: none is held for a caller that has returned.
PermitsMatchCallers ==
  /\ listRolesSemaphore = listers.running + listers.sent
  /\ listRolesSemaphore <= maxRoleRequestsInFlight

\* The callers waiting in Acquire all get past it (a caller leaves Acquire
\* with a permit and in no other way).
WaitingGetsPermit == (listers.waiting > 0) ~> (listers.waiting = 0)

\* C35: every permit acquired by a role enumeration is released when its
\* caller returns, on the success, upstream-error and watchdog paths alike:
\* whenever no caller is inside all 10 permits are free, and a caller
\* waiting for a permit eventually gets one.
C35_PermitsNeverLeak ==
  /\ []PermitsMatchCallers
  /\ WaitingGetsPermit

\* Callers have found all 10 permits taken, callers have returned on each
\* of the three paths, and now nobody is inside and every permit is free.
C35_Witness ==
  /\ listers.blocked > 0
  /\ listers.paths = {"nil", "error", "timeout"}
  /\ listers.arrived = MaxListers
  /\ listers.acquired = MaxListers
  /\ listers.running = 0 /\ listers.sent = 0
  /\ listRolesSemaphore = 0

\* ------------------------------------------- the detached workers: claims
\* Every goroutine started has sent once, or is still paginating.
OneSendEach ==
  listers.sends + listers.running + detached = listers.acquired

\* A goroutine whose caller has gone has room for its send.
DetachedCanSend == detached > 0 => CanSend(FALSE)

\* C36: the pagination goroutine of a role enumeration sends exactly one
\* result on its channel of capacity 1 and never blocks on that send, so it
\* ends even when its caller has already returned on the watchdog.
C36_DetachedWorkerSendsAndEnds ==
  /\ [](OneSendEach /\ DetachedCanSend)
  /\ (detached > 0) ~> (detached = 0)

\* A goroutine has sent after its caller had returned on the watchdog, and
\* no goroutine is left.
C36_Witness ==
  /\ listers.lateSend
  /\ "timeout" \in listers.paths
  /\ detached = 0
  /\ listers.running = 0
  /\ listers.sends = listers.acquired

\* ------------------------------------------- entries are for good: claims
\* The call of thread t found an entry for its account when it began.
BeganWithEntry(t) ==
  /\ roleFrame[t].pc # "idle"
  /\ roleFrame[t].account \in DOMAIN roleFrame[t].pre[1]

\* A call that began with an entry read it, and returns no error and
\* either the roles of the copy it read or those it has just listed.
LaterCallsSucceed ==
  \A t \in Threads :
    BeganWithEntry(t)
      => /\ roleFrame[t].ok
         /\ roleFrame[t].entry = roleFrame[t].pre[1][roleFrame[t].account]
         /\ roleFrame[t].pc = "returned"
              => /\ roleFrame[t].err = NilErr
                 /\ roleFrame[t].roles =
                      IF roleFrame[t].fetches = 0 \/ roleFrame[t].value.err # NilErr
                        THEN roleFrame[t].entry.Roles
                        ELSE roleFrame[t].value.roles

EntriesAreKept == DOMAIN accountRoleCache \subseteq DOMAIN accountRoleCache'

\* C37: once an account-roles cache entry exists for an account, every
\* later getAWSRolesForAccount of that account returns a nil error and a
\* role list, whatever upstream does afterwards: entries are never deleted
\* and every failed refresh falls back to the stored roles.
C37_CachedAccountNeverFails ==
  /\ []LaterCallsSucceed
  /\ [][EntriesAreKept]_vars

\* A call that found an expired entry while the listing of its account
\* timed out has returned the stored roles without error.
C37_Witness ==
  \E t \in Threads :
    /\ BeganWithEntry(t)
    /\ roleFrame[t].pc = "returned"
    /\ roleFrame[t].fetches = 1
    /\ roleFrame[t].value.err # NilErr
    /\ cloud[roleFrame[t].account].list = "timeout"
    /\ roleFrame[t].err = NilErr
    /\ roleFrame[t].roles = roleFrame[t].entry.Roles
    /\ roleFrame[t].roles # << >>

\* ------------------------------------- a failed listing is cached: claims
FailedWorkers(c) == {w \in WorkersOf(c) : w.failed}
\* The call of thread t begins with this step.
UserBeginStep(t) == userFrame[t].pc = "idle" /\ userFrame'[t].pc # "idle"
\* The resolver of thread t returned a result with no error although one
\* of its workers got an error for its account; the result has no entry
\* for that account and is written to the map whole, to expire 300 s later.
PartialResultStored ==
  \A t \in Threads :
    (/\ UserStoreStep(t)
     /\ userFrame[t].fresh.err = NilErr
     /\ FailedWorkers(userFrame[t].call) # {}) =>
      /\ \A w \in FailedWorkers(userFrame[t].call) :
           EntriesFor(userFrame[t].fresh.val, w.accountName) = {}
      /\ userFrame[t].username \in DOMAIN userAllowedCredentialsCache'
      /\ userAllowedCredentialsCache'[userFrame[t].username] =
           [PermittedAccounts |-> userFrame[t].fresh.val,
            Expiration |-> now + 300]
\* A call that begins while the entry of its user has not expired returns
\* the entry as it is: no worker is started and neither cache changes; a
\* call that begins once it has expired goes on to resolve again.
StoredResultServed ==
  \A t \in Threads :
    UserBeginStep(t) =>
      IF UserEntryFresh(userFrame'[t].username)
        THEN /\ userFrame'[t].pc = "returned"
             /\ userFrame'[t].value =
                  userAllowedCredentialsCache[userFrame'[t].username]
                    .PermittedAccounts
             /\ userFrame'[t].err = NilErr
             /\ userFrame'[t].fetches = 0 /\ userFrame'[t].call = 0
             /\ UNCHANGED <<workers, permittedAccounts, accountRoleCache,
                            userAllowedCredentialsCache>>
        ELSE userFrame'[t].pc = "config"

\* C38: when a worker of the resolver gets an error for its account and the
\* resolver still returns without error, the result, which has no entry for
\* that account, is stored in the user cache to expire 300 s later, and every
\* call for that user that begins before the expiry returns the stored
\* result without listing anything, whatever upstream answers by then.
C38_FailedListingIsCached ==
  [][PartialResultStored /\ StoredResultServed]_vars

\* A call has just been served from an unexpired entry that lacks an account
\* whose worker in an earlier call got an error, after upstream changed to
\* list roles for that account that the user is allowed.
C38_Witness ==
  \E t \in Threads, w \in workers :
    /\ userFrame[t].pc = "returned" /\ userFrame[t].fetches = 0
    /\ userFrame[t].ok /\ userFrame[t].entry[1].Expiration > now
    /\ w.failed
    /\ EntriesFor(userFrame[t].value, w.accountName) = {}
    /\ hist.upstreamChanges > 0
    /\ WorkerReport(config[1].AWS.Account, w.accountName,
                    getAWSRolesForAccountNonCached(w.accountName),
                    w.allowedRoles) # << >>

\* --------------------------------- what a reconfiguration leaves: claims
\* C39: an UpdateConfiguration call changes nothing of the broker but the
\* configuration and the user-groups getter: the user cache, the role
\* cache, the profile map, the master STS client and the readiness channel
\* are as the call found them, so that every user entry that had not
\* expired is still there, unexpired, and is what getUserAllowedAccounts
\* returns after the call.
C39_ReconfigurationKeepsCaches ==
  [][ConfigurationStep
       => /\ UNCHANGED <<userAllowedCredentialsCache, accountRoleCache,
                         profileCredentials, masterStsClient,
                         isUnsealedChannel>>
          /\ \A u \in Users :
               UserEntryFresh(u) =>
                 /\ UserEntryFresh(u)'
                 /\ \A started \in SUBSET GroupKeys :
                      ServedUserEntry(u, getUserAllowedAccounts(u, started))']_vars

\* A configuration has just been installed under which a user would be
\* resolved to other accounts than those of the unexpired entry the cache
\* holds for that user, upstream being what it was all along.
C39_Witness ==
  /\ last.op = "UpdateConfiguration" /\ last.err = NilErr
  /\ hist.upstreamChanges = 0
  /\ \E u \in Users, started \in SUBSET GroupKeys :
       /\ UserEntryFresh(u)
       /\ userAllowedCredentialsCache[u].PermittedAccounts # << >>
       /\ getUserAllowedAccountsNonCached(u, started).err = NilErr
       /\ getUserAllowedAccountsNonCached(u, started).val
            # userAllowedCredentialsCache[u].PermittedAccounts
       /\ getUserAllowedAccounts(u, started).val
            = userAllowedCredentialsCache[u].PermittedAccounts

\* ------------------------------------------------- the HTTP unseal handler
BrokerNames == {"b1", "b2"}
MaxRequests == 3

\* The characters of "^[-A-Za-z0-9_.=+/]{4,40}$".
SecretChars ==
  {"-", "_", ".", "=", "+", "/"} \cup
  {"a", "b", "c", "d", "e", "f", "g", "h", "i", "j", "k", "l", "m", "n", "o",
   "p", "q", "r", "s", "t", "u", "v", "w", "x", "y", "z"} \cup
  {"A", "B", "C", "D", "E", "F", "G", "H", "I", "J", "K", "L", "M", "N", "O",
   "P", "Q", "R", "S", "T", "U", "V", "W", "X", "Y", "Z"} \cup
  {"0", "1", "2", "3", "4", "5", "6", "7", "8", "9"}
\* Line 86: the value matches the expression.
SecretValid(chars) ==
  /\ Len(chars) >= 4 /\ Len(chars) <= 40
  /\ \A i \in 1..Len(chars) : chars[i] \in SecretChars

FormPassword == <<"p", "a", "s", "s", "w", "o", "r", "d">>
FormWrong == <<"w", "r", "o", "n", "g">>
FormShort == <<"b", "a", "d">>
FormSpaced == <<"w", "r", " ", "n", "g">>
\* The secret a broker is handed, as the brokers compare it.
SecretOf(chars) ==
  IF chars = FormPassword THEN "password"
  ELSE IF chars = FormWrong THEN "wrong" ELSE "other"

\* What a POST may carry: a body that does not parse, no unsealing_secret,
\* or one value of it.
Forms ==
  {[parsed |-> FALSE, values |-> << >>], [parsed |-> TRUE, values |-> << >>]}
    \cup {[parsed |-> TRUE, values |-> <<v>>] :
            v \in {FormPassword, FormWrong, FormShort, FormSpaced}}
Methods == {"GET", "POST", "PUT"}

\* A broker of the server as LoadCredentialsFile left it at startup: no
\* file configured, a plain file loaded, or an armored file retained.
ServerBroker(filename, raw, profiles) ==
  [credentialsFilename |-> filename, rawCredentialsFile |-> raw,
   profileCredentials |-> profiles]
StartedBrokers ==
  {ServerBroker("", NoBytes, EmptyProfiles),
   ServerBroker("/credentials-filename", PlainFile(TextBoth),
                ProfilesAfter(TextBoth.sections, EmptyProfiles))}
    \cup {ServerBroker("/credentials-filename", f, EmptyProfiles) :
            f \in {PgpFile(TRUE, "password", TRUE, TextBoth),
                   PgpFile(TRUE, "password", TRUE, TextShort),
                   PgpFile(TRUE, "password", FALSE, TextBoth)}}

\* processNewUnsealingSecret, lines 151-189, as one call on broker b: what
\* it returns and the broker it leaves.
BrokerProcessed(b, secret) ==
  IF b.credentialsFilename = "" \/ Cardinality(DOMAIN b.profileCredentials) > 0
    THEN [ready |-> TRUE, err |-> NilErr, broker |-> b]
  ELSE IF DecryptError(b.rawCredentialsFile, secret) # NilErr
    THEN [ready |-> FALSE, err |-> DecryptError(b.rawCredentialsFile, secret),
          broker |-> b]
  ELSE IF ~b.rawCredentialsFile.text.iniOK
    THEN [ready |-> FALSE, err |-> NilErr, broker |-> b]
  ELSE LET p == ProfilesAfter(b.rawCredentialsFile.text.sections,
                              b.profileCredentials)
       IN [ready |-> Cardinality(DOMAIN p) >= 1, err |-> NilErr,
           broker |-> [b EXCEPT !.profileCredentials = p]]

UpdRequest(r, f) == server' = [server EXCEPT !.req[r] = f]
Done(f, status) == [f EXCEPT !.pc = "done", !.status = status]

\* Lines 64-93: the user, the method, the form and the secret's shape.
\* authOK is whether getRemoteUserName returned a user.
H_Request(r, authOK, method, form) ==
  /\ server.req[r].pc = "idle"
  /\ LET f == [IdleRequest EXCEPT !.method = method]
     IN UpdRequest(r,
          IF ~authOK THEN Done(f, 0)
          ELSE IF method = "GET" THEN Done(f, 200)
          ELSE IF method # "POST" THEN Done(f, 405)
          ELSE IF ~form.parsed THEN Done(f, 400)
          ELSE IF form.values = << >> \/ ~SecretValid(form.values[1])
            THEN Done(f, 400)
          ELSE [f EXCEPT !.pc = "loop", !.secret = SecretOf(form.values[1]),
                         !.todo = DOMAIN server.brokers])
  /\ hist' = [hist EXCEPT !.calls = @ + 1]
  /\ UNCHANGED <<unsealVars, authzVars, listRolesSemaphore, detached, metrics,
                 userFrame, workers, permittedAccounts, listers>>

\* Lines 94-104, one iteration of the loop over s.brokers, in whatever
\* order the range visits them.
HandedTo(r, b, res) ==
  server' =
    [server EXCEPT
       !.brokers[b] = res.broker,
       !.req[r] =
         LET f == [@ EXCEPT !.todo = @ \ {b}, !.order = Append(@, b),
                            !.answers = MapPut(@, b, [ready |-> res.ready,
                                                      err |-> res.err])]
         IN IF res.err # NilErr THEN Done(f, 500)
            ELSE [f EXCEPT !.sumReady = IF res.ready THEN @ + 1 ELSE @]]
H_Broker(r, b) ==
  /\ server.req[r].pc = "loop"
  /\ b \in server.req[r].todo
  /\ HandedTo(r, b, BrokerProcessed(server.brokers[b], server.req[r].secret))
  /\ UNCHANGED <<unsealVars, hist, authzVars, listRolesSemaphore, detached,
                 metrics, userFrame, workers, permittedAccounts, listers>>

\* One broker that answered ready is enough.
AllReady_SomeReady(sumReady, n) == sumReady >= 1

\* Line 106: every broker answered ready.
AllReady(sumReady, n) == sumReady = n

\* Lines 106-111: the flag, then the redirect.
H_Finish(r) ==
  /\ server.req[r].pc = "loop"
  /\ server.req[r].todo = {}
  /\ server' =
       [server EXCEPT
          !.isReady = IF AllReady(server.req[r].sumReady,
                                  Cardinality(DOMAIN server.brokers))
                        THEN TRUE ELSE @,
          !.req[r] = Done(@, 302)]
  /\ UNCHANGED <<unsealVars, hist, authzVars, listRolesSemaphore, detached,
                 metrics, userFrame, workers, permittedAccounts, listers>>

\* The response has been written; the goroutine of the request ends.
H_Return(r) ==
  /\ server.req[r].pc = "done"
  /\ UpdRequest(r, IdleRequest)
  /\ UNCHANGED <<unsealVars, hist, authzVars, listRolesSemaphore, detached,
                 metrics, userFrame, workers, permittedAccounts, listers>>

\* A server over two brokers, started, not ready, with no request running.
HttpInit ==
  /\ SealedBroker
  /\ crashed = FALSE
  /\ frame = [t \in Threads |-> IdleFrame]
  /\ hist = InitHist
  /\ roleFrame = [t \in Threads |-> IdleRoleFrame]
  /\ listRolesSemaphore = 0
  /\ detached = 0
  /\ metrics = NoMetrics
  /\ userFrame = [t \in Threads |-> IdleUserFrame]
  /\ workers = {}
  /\ permittedAccounts = [c \in {} |-> << >>]
  /\ listers = NoListers
  /\ config = << >>
  /\ userInfo = << >>
  /\ userAllowedCredentialsCache = [u \in {} |-> << >>]
  /\ accountRoleCache = [a \in {} |-> << >>]
  /\ now = 0
  /\ last = NoCall
  /\ idp = [ok |-> TRUE, groups |-> [u \in Users |-> << >>]]
  /\ cloud = [a \in CloudNames |-> Healthy]
  /\ server \in {[isReady |-> FALSE, brokers |-> bs,
                  req |-> [r \in Threads |-> IdleRequest]] :
                   bs \in [BrokerNames -> StartedBrokers]}

\* Requests of the unseal page, each in its goroutine.
HttpNext ==
  \/ \E r \in Threads, authOK \in BOOLEAN, method \in Methods, form \in Forms :
       CanCall(MaxRequests) /\ H_Request(r, authOK, method, form)
  \/ \E r \in Threads, b \in BrokerNames : H_Broker(r, b)
  \/ \E r \in Threads : H_Finish(r)
  \/ \E r \in Threads : H_Return(r)

HttpSpec == HttpInit /\ [][HttpNext]_vars

\* ------------------------------------------------ the unseal handler: claims
Handed(f) == {f.order[i] : i \in 1..Len(f.order)}
NoErrorIn(f) == \A b \in DOMAIN f.answers : f.answers[b].err = NilErr
\* The flag is set by the step that ends a POST in which every broker of
\* the server was handed the secret and answered ready without error.
ReadyOnlyWhenAllReady ==
  (~server.isReady /\ server'.isReady) =>
    \E r \in Threads :
      /\ server.req[r].pc = "loop" /\ server'.req[r].pc = "done"
      /\ server'.req[r].status = 302
      /\ server.req[r].method = "POST"
      /\ Handed(server.req[r]) = DOMAIN server.brokers
      /\ \A b \in DOMAIN server.brokers :
           /\ server.req[r].answers[b].ready
           /\ server.req[r].answers[b].err = NilErr
\* A request hands the secret to a broker only while no broker has answered
\* it with an error, and the step in which one does ends it with a 500.
ErrorEndsRequest ==
  \A r \in Threads :
    /\ Len(server'.req[r].order) > Len(server.req[r].order) =>
         /\ NoErrorIn(server.req[r])
         /\ ~NoErrorIn(server'.req[r]) <=> server'.req[r].status = 500
         /\ ~NoErrorIn(server'.req[r]) => server'.req[r].pc = "done"
    /\ server.req[r].pc = "done" =>
         server'.req[r] \in {server.req[r], IdleRequest}
\* While a request is in its loop, the brokers it has not handed the secret
\* to are those still to visit.
RemainingUntouched ==
  \A r \in Threads :
    server.req[r].pc \in {"loop", "done"} /\ server.req[r].method = "POST"
      /\ server.req[r].status \in {0, 302, 500} /\ server.req[r].order # << >>
    => /\ Handed(server.req[r]) \cap server.req[r].todo = {}
       /\ Len(server.req[r].order) = Cardinality(Handed(server.req[r]))

\* C40: the server's isReady goes from false to true only in the step that
\* ends a POST in which every broker was handed the secret and answered
\* ready with no error; the first broker that answers with an error ends its
\* request with a 500, the brokers not yet visited being handed nothing by
\* that request; and isReady, once true, stays true.
C40_ReadyOnlyWhenAllBrokersReady ==
  [][/\ ReadyOnlyWhenAllReady
     /\ ErrorEndsRequest
     /\ RemainingUntouched
     /\ server.isReady => server'.isReady]_vars

\* The server is ready while a request that a broker answered with an error
\* has ended with a 500, one broker never handed its secret.
C40_Witness ==
  /\ server.isReady
  /\ \E r \in Threads :
       /\ server.req[r].pc = "done" /\ server.req[r].status = 500
       /\ server.req[r].todo # {}
       /\ Len(server.req[r].order) = 1
====
